---------------------------- MODULE Spec2Model ----------------------------
(***************************************************************************)
(* A model of the AiImpactAnalyzer front end:                              *)
(*   - the shared AnalysisContext (reducer state, apiCall and the context  *)
(*     operations built on it), with the requests in flight;               *)
(*   - the Repositories and Coverage pages (in-memory records, add/edit    *)
(*     form, search, select filter, pagination);                           *)
(*   - the Analysis page (its form and the simulated analysis) and the     *)
(*     theme flag with its three toggles.                                  *)
(* JavaScript runs one task at a time: a task (a user event, a settled     *)
(* fetch) is followed by every pending microtask (the continuation of an   *)
(* await) before the next task starts.                                     *)
(***************************************************************************)
EXTENDS Integers, Sequences, FiniteSets, TLC

VARIABLES
    state,      \* the reducer state of AnalysisProvider (useReducer)
    calls,      \* the context operations in flight
    settled,    \* how the last completed context operation ended, for its caller
    opsStarted, \* how many context operations have been called so far
    route,            \* the path of the page the router has mounted
    repositoriesPage, \* the useState values of the Repositories component
    coveragePage,     \* the useState values of the Coverage component
    now,              \* the clock Date.now() reads, in milliseconds
    changes,          \* how many deletions, syncs and edits have been made or begun
    theme,            \* the theme flag of ThemeProvider and what follows it
    analysisPage      \* the useState values of the Analysis component

ctxVars == <<state, calls, settled, opsStarted>>
pageVars == <<route, repositoriesPage, coveragePage, now, changes>>
uiVars == <<theme, analysisPage>>
vars == <<state, calls, settled, opsStarted, route, repositoriesPage, coveragePage, now,
          changes, theme, analysisPage>>

-----------------------------------------------------------------------------
(* Bounds of the model.                                                    *)

\* context operations a behaviour may start (all of them may overlap)
MaxOps == 2
\* records of a list the filters are applied to
MaxFilterRecords == 2
\* records the Repositories list may hold
MaxRepositories == 9
\* records the Coverage list may hold
MaxMappings == 11
\* deletions, syncs and edits a behaviour may make or begin
MaxChanges == 1
\* entries the changedFiles list of the Analysis form may hold
MaxChangedFiles == 3
\* operations called while the pages are visited
MaxAppOps == 1

-----------------------------------------------------------------------------
(* JavaScript values.                                                      *)

\* null; a nullable string s is JSString(s)
Null == [null |-> TRUE]
JSString(s) == [string |-> s]

\* the truthiness `error && ...` and `a || b` test: null and '' are falsy
Truthy(v) == v # Null /\ v # JSString("")

\* object spread { ...a, ...b }
Spread(a, b) ==
    [k \in DOMAIN a \cup DOMAIN b |-> IF k \in DOMAIN b THEN b[k] ELSE a[k]]

-----------------------------------------------------------------------------
(* AnalysisContext: the reducer.                                           *)

initialState ==
    [ analyses         |-> <<>>,
      currentAnalysis  |-> Null,
      loading          |-> FALSE,
      error            |-> Null,
      repositories     |-> <<>>,
      coverageMappings |-> <<>>,
      stats            |-> [ totalAnalyses      |-> 0,
                             totalTimeSaved     |-> 0,
                             averageRiskScore   |-> 0,
                             totalTestsSelected |-> 0 ] ]

\* mutant of analysisReducer: SET_ANALYSES lets go of the current analysis
analysisReducer_resetsCurrent(s, action) ==
    CASE action.type = "SET_LOADING" ->
            [s EXCEPT !.loading = action.payload]
      [] action.type = "SET_ERROR" ->
            [s EXCEPT !.error = action.payload, !.loading = FALSE]
      [] action.type = "CLEAR_ERROR" ->
            [s EXCEPT !.error = Null]
      [] action.type = "SET_ANALYSES" ->
            [s EXCEPT !.analyses = action.payload, !.currentAnalysis = Null]
      [] action.type = "ADD_ANALYSIS" ->
            [s EXCEPT !.analyses = <<action.payload>> \o s.analyses,
                      !.currentAnalysis = action.payload]
      [] action.type = "SET_CURRENT_ANALYSIS" ->
            [s EXCEPT !.currentAnalysis = action.payload]
      [] action.type = "SET_REPOSITORIES" ->
            [s EXCEPT !.repositories = action.payload]
      [] action.type = "SET_COVERAGE_MAPPINGS" ->
            [s EXCEPT !.coverageMappings = action.payload]
      [] action.type = "UPDATE_STATS" ->
            [s EXCEPT !.stats = Spread(s.stats, action.payload)]
      [] OTHER -> s

\* mutant of analysisReducer: ADD_ANALYSIS puts the analysis after the others
analysisReducer_append(s, action) ==
    CASE action.type = "SET_LOADING" ->
            [s EXCEPT !.loading = action.payload]
      [] action.type = "SET_ERROR" ->
            [s EXCEPT !.error = action.payload, !.loading = FALSE]
      [] action.type = "CLEAR_ERROR" ->
            [s EXCEPT !.error = Null]
      [] action.type = "SET_ANALYSES" ->
            [s EXCEPT !.analyses = action.payload]
      [] action.type = "ADD_ANALYSIS" ->
            [s EXCEPT !.analyses = Append(s.analyses, action.payload),
                      !.currentAnalysis = action.payload]
      [] action.type = "SET_CURRENT_ANALYSIS" ->
            [s EXCEPT !.currentAnalysis = action.payload]
      [] action.type = "SET_REPOSITORIES" ->
            [s EXCEPT !.repositories = action.payload]
      [] action.type = "SET_COVERAGE_MAPPINGS" ->
            [s EXCEPT !.coverageMappings = action.payload]
      [] action.type = "UPDATE_STATS" ->
            [s EXCEPT !.stats = Spread(s.stats, action.payload)]
      [] OTHER -> s

analysisReducer(s, action) ==
    CASE action.type = "SET_LOADING" ->
            [s EXCEPT !.loading = action.payload]
      [] action.type = "SET_ERROR" ->
            [s EXCEPT !.error = action.payload, !.loading = FALSE]
      [] action.type = "CLEAR_ERROR" ->
            [s EXCEPT !.error = Null]
      [] action.type = "SET_ANALYSES" ->
            [s EXCEPT !.analyses = action.payload]
      [] action.type = "ADD_ANALYSIS" ->
            [s EXCEPT !.analyses = <<action.payload>> \o s.analyses,
                      !.currentAnalysis = action.payload]
      [] action.type = "SET_CURRENT_ANALYSIS" ->
            [s EXCEPT !.currentAnalysis = action.payload]
      [] action.type = "SET_REPOSITORIES" ->
            [s EXCEPT !.repositories = action.payload]
      [] action.type = "SET_COVERAGE_MAPPINGS" ->
            [s EXCEPT !.coverageMappings = action.payload]
      [] action.type = "UPDATE_STATS" ->
            [s EXCEPT !.stats = Spread(s.stats, action.payload)]
      [] OTHER -> s

\* the data fields of the shared state (all but loading and error)
Data(s) ==
    [ analyses         |-> s.analyses,
      currentAnalysis  |-> s.currentAnalysis,
      repositories     |-> s.repositories,
      coverageMappings |-> s.coverageMappings,
      stats            |-> s.stats ]


-----------------------------------------------------------------------------
(* AnalysisContext: apiCall.  The part before `await fetch` runs in the    *)
(* caller's task; the rest runs when the fetch, then response.json(),      *)
(* settles.                                                                *)

Dispatch(s, action) == analysisReducer(s, action)

\* mutant of errorMessage: the message is stored without the fallback
errorMessage_noFallback(error) == error.message

\* error.message || 'An error occurred'
errorMessage(error) ==
    IF Truthy(JSString(error.message)) THEN error.message ELSE "An error occurred"

\* mutant of apiCallTry: the prior error is not cleared
apiCallTry_keepError(s) ==
    Dispatch(s, [type |-> "SET_LOADING", payload |-> TRUE])

\* mutant of apiCallTry: the loading flag is not set
apiCallTry_noLoading(s) ==
    Dispatch(s, [type |-> "CLEAR_ERROR"])

\* try { dispatch(SET_LOADING true); dispatch(CLEAR_ERROR); fetch(...) }
apiCallTry(s) ==
    Dispatch(Dispatch(s, [type |-> "SET_LOADING", payload |-> TRUE]),
             [type |-> "CLEAR_ERROR"])

\* mutant of apiCallCatch: the error is rethrown without being dispatched
apiCallCatch_noDispatch(s, error) == s

\* catch (error) { dispatch(SET_ERROR errorMessage); throw error }
apiCallCatch(s, error) ==
    Dispatch(s, [type |-> "SET_ERROR", payload |-> JSString(errorMessage(error))])

\* finally { dispatch(SET_LOADING false) }
apiCallFinally(s) ==
    Dispatch(s, [type |-> "SET_LOADING", payload |-> FALSE])

\* throw new Error(`HTTP error! status: ${response.status}`)
httpError(response) ==
    [message |-> "HTTP error! status: " \o ToString(response.status)]

-----------------------------------------------------------------------------
(* What the network may answer.                                            *)

\* the errors a fetch rejects with: a TypeError, with or without a message
FetchErrors == { [message |-> "Failed to fetch"], [message |-> ""] }
\* the responses a fetch resolves with
Responses == { [ok |-> TRUE, status |-> 200], [ok |-> FALSE, status |-> 500] }
\* the error response.json() rejects with
JsonErrors == { [message |-> "Unexpected end of JSON input"] }

AnalysisResults == { [id |-> 1], [id |-> 2] }

\* the bodies the endpoint of an operation's request may send
Bodies(op, request) ==
    CASE op = "analyzeImpact"       -> AnalysisResults
      [] op = "getAnalyses"         -> { <<[id |-> 1]>> }
      [] op = "getRepositories"     -> { <<[id |-> 1]>> }
      [] op = "getCoverageMappings" -> { <<[id |-> 1]>> }
      [] op = "createCoverageMapping" ->
            IF request = "refresh" THEN { <<[id |-> 1]>> } ELSE { [id |-> 1] }
      [] op = "getHealthStatus"     -> { [status |-> "healthy"] }
      [] op = "getMetrics"          -> { [totalAnalyses |-> 5, averageRisk |-> 1] }

Operations ==
    { "analyzeImpact", "getAnalyses", "getRepositories", "getCoverageMappings",
      "createCoverageMapping", "getHealthStatus", "getMetrics" }

-----------------------------------------------------------------------------
(* The operations in flight, in the order they were called.               *)

InFlight == DOMAIN calls

\* a continuation is pending: no new task starts before it has run
MicrotaskPending == \E c \in InFlight : calls[c].pc \in {"resolved", "rejected"}

\* the calls without the one that completed
Remove(cs, c) == SubSeq(cs, 1, c - 1) \o SubSeq(cs, c + 1, Len(cs))

\* the others in flight have now shared the wire with a new request
Overlap(cs, c) ==
    [d \in DOMAIN cs |->
        IF d # c
        THEN [cs[d] EXCEPT !.overlapped = TRUE, !.requestOverlapped = TRUE]
        ELSE cs[d]]

\* the others in flight have seen the data fields written by someone else
Disturb(cs, s, t) ==
    [d \in DOMAIN cs |->
        IF Data(s) # Data(t) THEN [cs[d] EXCEPT !.disturbed = TRUE] ELSE cs[d]]

\* apiCall is invoked for operation op and runs up to its `await fetch`
apiCallInvoked(op, request, data) ==
    [ pc                |-> "fetch",
      op                |-> op,
      request           |-> request,
      data              |-> data,
      fetches           |-> 1,
      pre               |-> Data(state),
      errorBefore       |-> state.error # Null,
      overlapped        |-> InFlight # {},
      requestOverlapped |-> InFlight # {},
      disturbed         |-> FALSE ]

\* mutant of apiCallThrow: the request is issued again instead
apiCallThrow_retry(call) == [call EXCEPT !.pc = "fetch", !.fetches = @ + 1]

\* `throw error` at the end of apiCall's catch: its promise is rejected
apiCallThrow(call) == [call EXCEPT !.pc = "rejected"]

\* `return data`: its promise is resolved
apiCallReturn(call, data) == [call EXCEPT !.pc = "resolved", !.data = data]

\* a component calls a context operation: the operation calls apiCall
StartOperation(op) ==
    /\ ~MicrotaskPending
    /\ opsStarted < MaxOps
    /\ calls' = Overlap(Append(calls, apiCallInvoked(op, "first", Null)), Len(calls) + 1)
    /\ state' = apiCallTry(state)
    /\ opsStarted' = opsStarted + 1
    /\ UNCHANGED <<settled, pageVars, uiVars>>

\* `await fetch` rejects: catch, finally
FetchRejects(c, error) ==
    /\ ~MicrotaskPending
    /\ calls[c].pc = "fetch"
    /\ state' = apiCallFinally(apiCallCatch(state, error))
    /\ calls' = [calls EXCEPT ![c] = apiCallThrow(calls[c])]
    /\ UNCHANGED <<settled, opsStarted, pageVars, uiVars>>

\* `await fetch` resolves: a response that is not ok is thrown and caught,
\* an ok response is parsed
FetchResolves(c, response) ==
    /\ ~MicrotaskPending
    /\ calls[c].pc = "fetch"
    /\ IF ~response.ok
       THEN /\ state' = apiCallFinally(apiCallCatch(state, httpError(response)))
            /\ calls' = [calls EXCEPT ![c] = apiCallThrow(calls[c])]
       ELSE /\ state' = state
            /\ calls' = [calls EXCEPT ![c].pc = "json"]
    /\ UNCHANGED <<settled, opsStarted, pageVars, uiVars>>

\* `await response.json()` rejects: catch, finally
JsonRejects(c, error) ==
    /\ ~MicrotaskPending
    /\ calls[c].pc = "json"
    /\ state' = apiCallFinally(apiCallCatch(state, error))
    /\ calls' = [calls EXCEPT ![c] = apiCallThrow(calls[c])]
    /\ UNCHANGED <<settled, opsStarted, pageVars, uiVars>>

\* `await response.json()` resolves: return data, finally
JsonResolves(c, data) ==
    /\ ~MicrotaskPending
    /\ calls[c].pc = "json"
    /\ state' = apiCallFinally(state)
    /\ calls' = [calls EXCEPT ![c] = apiCallReturn(calls[c], data)]
    /\ UNCHANGED <<settled, opsStarted, pageVars, uiVars>>

-----------------------------------------------------------------------------
(* AnalysisContext: the operations, after their `await apiCall(...)`.      *)

\* what an operation dispatches with the result of its apiCall
resultAction(op, result) ==
    CASE op = "analyzeImpact"         -> [type |-> "ADD_ANALYSIS", payload |-> result]
      [] op = "getAnalyses"           -> [type |-> "SET_ANALYSES", payload |-> result]
      [] op = "getRepositories"       -> [type |-> "SET_REPOSITORIES", payload |-> result]
      [] op = "getCoverageMappings"   -> [type |-> "SET_COVERAGE_MAPPINGS", payload |-> result]
      [] op = "createCoverageMapping" -> [type |-> "SET_COVERAGE_MAPPINGS", payload |-> result]
      [] op = "getMetrics"            -> [type |-> "UPDATE_STATS", payload |-> result]
      [] OTHER                        -> [type |-> "NONE"]

\* the catch of every operation: console.error(...); throw error
operationCatch(op) == [outcome |-> "rejected"]

\* `return result`
operationReturn(op) == [outcome |-> "resolved"]

\* apiCall has resolved: the operation dispatches the result and returns it
OperationResolves(c) ==
    /\ calls[c].pc = "resolved"
    /\ ~(calls[c].op = "createCoverageMapping" /\ calls[c].request = "first")
    /\ state' = Dispatch(state, resultAction(calls[c].op, calls[c].data))
    /\ calls' = Disturb(Remove(calls, c), state, state')
    /\ settled' = operationReturn(calls[c].op)
    /\ UNCHANGED <<opsStarted, pageVars, uiVars>>

\* mutant of RefreshCoverageMappings: the result of the POST is returned
\* without the refresh
RefreshCoverageMappings_skipped(c) ==
    /\ calls[c].pc = "resolved"
    /\ calls[c].op = "createCoverageMapping" /\ calls[c].request = "first"
    /\ state' = state
    /\ calls' = Remove(calls, c)
    /\ settled' = operationReturn(calls[c].op)
    /\ UNCHANGED <<opsStarted, pageVars, uiVars>>

\* createCoverageMapping's POST has resolved: `await getCoverageMappings()`
\* invokes apiCall again
RefreshCoverageMappings(c) ==
    /\ calls[c].pc = "resolved"
    /\ calls[c].op = "createCoverageMapping" /\ calls[c].request = "first"
    /\ state' = apiCallTry(state)
    /\ calls' = Overlap([calls EXCEPT ![c] =
                   [apiCallInvoked(calls[c].op, "refresh", calls[c].data)
                      EXCEPT !.pre = calls[c].pre,
                             !.errorBefore = calls[c].errorBefore,
                             !.overlapped = calls[c].overlapped \/ InFlight # {c},
                             !.requestOverlapped = InFlight # {c},
                             !.disturbed = calls[c].disturbed]], c)
    /\ UNCHANGED <<settled, opsStarted, pageVars, uiVars>>

\* apiCall has thrown: the operation's catch logs and rethrows
OperationRejects(c) ==
    /\ calls[c].pc = "rejected"
    /\ state' = state
    /\ calls' = Remove(calls, c)
    /\ settled' = operationCatch(calls[c].op)
    /\ UNCHANGED <<opsStarted, pageVars, uiVars>>

\* value.setCurrentAnalysis(analysis)
setCurrentAnalysis(analysis) ==
    /\ ~MicrotaskPending
    /\ state' = Dispatch(state, [type |-> "SET_CURRENT_ANALYSIS", payload |-> analysis])
    /\ calls' = Disturb(calls, state, state')
    /\ UNCHANGED <<settled, opsStarted, pageVars, uiVars>>

\* mutant of clearError: the requests in flight are dropped as well
clearError_abort ==
    /\ ~MicrotaskPending
    /\ state' = Dispatch(state, [type |-> "CLEAR_ERROR"])
    /\ calls' = <<>>
    /\ UNCHANGED <<settled, opsStarted, pageVars, uiVars>>

\* value.clearError(), the button of the Navbar's error banner
clearError ==
    /\ ~MicrotaskPending
    /\ state' = Dispatch(state, [type |-> "CLEAR_ERROR"])
    /\ UNCHANGED <<calls, settled, opsStarted, pageVars, uiVars>>

\* Navbar: {error && ( <banner> )}
bannerRendered == Truthy(state.error)

-----------------------------------------------------------------------------
(* Text.  A searched text field is the sequence of its characters, so that *)
(* toLowerCase and includes are computed character by character.           *)

LowerOf ==
    [ A |-> "a", B |-> "b", C |-> "c", D |-> "d", E |-> "e", F |-> "f", G |-> "g",
      H |-> "h", I |-> "i", J |-> "j", K |-> "k", L |-> "l", M |-> "m", N |-> "n",
      O |-> "o", P |-> "p", Q |-> "q", R |-> "r", S |-> "s", T |-> "t", U |-> "u",
      V |-> "v", W |-> "w", X |-> "x", Y |-> "y", Z |-> "z" ]

\* the letters: the characters that have a case
Cased(c) ==
    \/ c \in DOMAIN LowerOf
    \/ \E upper \in DOMAIN LowerOf : LowerOf[upper] = c
    \/ c \in {"Α", "α", "Σ", "σ", "ς"}

\* characters the case mapping of a neighbour looks through
CaseIgnorable == {".", ":", "'"}

\* the capital sigma at i ends a word: a letter stands before it and none
\* after it, case-ignorable characters looked through (the one mapping of
\* toLowerCase that depends on the neighbours of a character)
FinalSigma(s, i) ==
    /\ \E j \in 1..(i - 1) :
          Cased(s[j]) /\ \A k \in (j + 1)..(i - 1) : s[k] \in CaseIgnorable
    /\ ~ \E j \in (i + 1)..Len(s) :
            Cased(s[j]) /\ \A k \in (i + 1)..(j - 1) : s[k] \in CaseIgnorable

\* String.prototype.toLowerCase: the Latin letters, and of the Greek ones
\* alpha and sigma
toLowerCase(s) ==
    [i \in DOMAIN s |->
       IF s[i] \in DOMAIN LowerOf THEN LowerOf[s[i]]
       ELSE IF s[i] = "Σ" THEN (IF FinalSigma(s, i) THEN "ς" ELSE "σ")
       ELSE IF s[i] = "Α" THEN "α"
       ELSE s[i]]

\* String.prototype.includes
includes(s, t) ==
    \/ t = <<>>
    \/ \E k \in 0..(Len(s) - Len(t)) : SubSeq(s, k + 1, k + Len(t)) = t

\* Array.prototype.slice(start, end), 0 <= start <= end
slice(list, start, end) ==
    SubSeq(list, start + 1, IF end < Len(list) THEN end ELSE Len(list))

\* Math.ceil(n / d)
ceil(n, d) == IF n % d = 0 THEN n \div d ELSE n \div d + 1

\* a number held in a field that may also hold a string
JSNumber(n) == [number |-> n]

\* new Date().toISOString().split('T')[0]
Today == "2024-01-16"

-----------------------------------------------------------------------------
(* Repositories page: its mock data.                                       *)

mockRepositories ==
    <<
      [ id |-> 1,
        name |-> << "f","r","o","n","t","e","n","d","-","a","p","p" >>,
        url |-> "https://github.com/company/frontend-app",
        description |->
           << "R","e","a","c","t","-","b","a","s","e","d"," ","f","r","o","n",
              "t","e","n","d"," ","a","p","p","l","i","c","a","t","i","o","n",
              " ","w","i","t","h"," ","m","o","d","e","r","n"," ","U","I"," ",
              "c","o","m","p","o","n","e","n","t","s" >>,
        language |-> << "J","a","v","a","S","c","r","i","p","t" >>,
        status |-> "active", branch |-> "main", lastSync |-> "2024-01-15",
        stars |-> 45, forks |-> 12, issues |-> 3, pullRequests |-> 7,
        coverage |-> 87, lastCommit |-> "2 hours ago" ],
      [ id |-> 2,
        name |-> << "b","a","c","k","e","n","d","-","a","p","i" >>,
        url |-> "https://github.com/company/backend-api",
        description |->
           << "F","a","s","t","A","P","I"," ","b","a","c","k","e","n","d"," ",
              "s","e","r","v","i","c","e"," ","w","i","t","h"," ","P","o","s",
              "t","g","r","e","S","Q","L"," ","d","a","t","a","b","a","s","e" >>,
        language |-> << "P","y","t","h","o","n" >>,
        status |-> "active", branch |-> "main", lastSync |-> "2024-01-14",
        stars |-> 32, forks |-> 8, issues |-> 5, pullRequests |-> 4,
        coverage |-> 92, lastCommit |-> "1 day ago" ],
      [ id |-> 3,
        name |-> << "m","o","b","i","l","e","-","a","p","p" >>,
        url |-> "https://github.com/company/mobile-app",
        description |->
           << "R","e","a","c","t"," ","N","a","t","i","v","e"," ","m","o","b",
              "i","l","e"," ","a","p","p","l","i","c","a","t","i","o","n"," ",
              "f","o","r"," ","i","O","S"," ","a","n","d"," ","A","n","d","r",
              "o","i","d" >>,
        language |-> << "J","a","v","a","S","c","r","i","p","t" >>,
        status |-> "active", branch |-> "develop", lastSync |-> "2024-01-13",
        stars |-> 28, forks |-> 6, issues |-> 2, pullRequests |-> 3,
        coverage |-> 78, lastCommit |-> "3 days ago" ],
      [ id |-> 4,
        name |-> << "d","a","t","a","-","p","i","p","e","l","i","n","e" >>,
        url |-> "https://github.com/company/data-pipeline",
        description |->
           << "E","T","L"," ","p","i","p","e","l","i","n","e"," ","f","o","r",
              " ","d","a","t","a"," ","p","r","o","c","e","s","s","i","n","g",
              " ","a","n","d"," ","a","n","a","l","y","t","i","c","s" >>,
        language |-> << "P","y","t","h","o","n" >>,
        status |-> "inactive", branch |-> "main", lastSync |-> "2024-01-10",
        stars |-> 15, forks |-> 3, issues |-> 8, pullRequests |-> 1,
        coverage |-> 65, lastCommit |-> "1 week ago" ],
      [ id |-> 5,
        name |-> << "i","n","f","r","a","s","t","r","u","c","t","u","r","e" >>,
        url |-> "https://github.com/company/infrastructure",
        description |->
           << "T","e","r","r","a","f","o","r","m"," ","a","n","d"," ","D","o",
              "c","k","e","r"," ","c","o","n","f","i","g","u","r","a","t","i",
              "o","n","s"," ","f","o","r"," ","d","e","p","l","o","y","m","e",
              "n","t" >>,
        language |-> << "H","C","L" >>,
        status |-> "active", branch |-> "main", lastSync |-> "2024-01-12",
        stars |-> 22, forks |-> 5, issues |-> 1, pullRequests |-> 2,
        coverage |-> 45, lastCommit |-> "5 days ago" ],
      [ id |-> 6,
        name |-> << "d","o","c","u","m","e","n","t","a","t","i","o","n" >>,
        url |-> "https://github.com/company/documentation",
        description |->
           << "P","r","o","j","e","c","t"," ","d","o","c","u","m","e","n","t",
              "a","t","i","o","n"," ","a","n","d"," ","A","P","I"," ","r","e",
              "f","e","r","e","n","c","e","s" >>,
        language |-> << "M","a","r","k","d","o","w","n" >>,
        status |-> "active", branch |-> "main", lastSync |-> "2024-01-11",
        stars |-> 18, forks |-> 4, issues |-> 0, pullRequests |-> 1,
        coverage |-> 0, lastCommit |-> "6 days ago" ]
    >>


-----------------------------------------------------------------------------
(* Coverage page: its mock data.                                           *)

mockMappings ==
    <<
      [ id |-> 1,
        filePath |-> << "s","r","c","/","c","o","m","p","o","n","e","n","t","s","/","B",
           "u","t","t","o","n",".","j","s","x" >>,
        testFilePath |->
           << "s","r","c","/","c","o","m","p","o","n","e","n","t","s","/","_",
              "_","t","e","s","t","s","_","_","/","B","u","t","t","o","n",".",
              "t","e","s","t",".","j","s","x" >>,
        testFunctionName |->
           << "B","u","t","t","o","n"," ","c","o","m","p","o","n","e","n","t",
              " ","t","e","s","t","s" >>,
        coveragePercentage |-> JSNumber(95), priority |-> "high",
        lastUpdated |-> "2024-01-15", status |-> "active" ],
      [ id |-> 2,
        filePath |-> << "s","r","c","/","u","t","i","l","s","/","h","e","l","p","e","r",
           "s",".","j","s" >>,
        testFilePath |->
           << "s","r","c","/","u","t","i","l","s","/","_","_","t","e","s","t",
              "s","_","_","/","h","e","l","p","e","r","s",".","t","e","s","t",
              ".","j","s" >>,
        testFunctionName |->
           << "H","e","l","p","e","r"," ","f","u","n","c","t","i","o","n"," ",
              "t","e","s","t","s" >>,
        coveragePercentage |-> JSNumber(87), priority |-> "medium",
        lastUpdated |-> "2024-01-14", status |-> "active" ],
      [ id |-> 3,
        filePath |-> << "s","r","c","/","s","e","r","v","i","c","e","s","/","a","p","i",
           ".","j","s" >>,
        testFilePath |->
           << "s","r","c","/","s","e","r","v","i","c","e","s","/","_","_","t",
              "e","s","t","s","_","_","/","a","p","i",".","t","e","s","t",".",
              "j","s" >>,
        testFunctionName |->
           << "A","P","I"," ","s","e","r","v","i","c","e"," ","t","e","s","t",
              "s" >>,
        coveragePercentage |-> JSNumber(72), priority |-> "low",
        lastUpdated |-> "2024-01-13", status |-> "active" ],
      [ id |-> 4,
        filePath |-> << "s","r","c","/","h","o","o","k","s","/","u","s","e","A","u","t",
           "h",".","j","s" >>,
        testFilePath |->
           << "s","r","c","/","h","o","o","k","s","/","_","_","t","e","s","t",
              "s","_","_","/","u","s","e","A","u","t","h",".","t","e","s","t",
              ".","j","s" >>,
        testFunctionName |->
           << "A","u","t","h","e","n","t","i","c","a","t","i","o","n"," ","h",
              "o","o","k"," ","t","e","s","t","s" >>,
        coveragePercentage |-> JSNumber(91), priority |-> "high",
        lastUpdated |-> "2024-01-12", status |-> "active" ],
      [ id |-> 5,
        filePath |-> << "s","r","c","/","c","o","m","p","o","n","e","n","t","s","/","M",
           "o","d","a","l",".","j","s","x" >>,
        testFilePath |->
           << "s","r","c","/","c","o","m","p","o","n","e","n","t","s","/","_",
              "_","t","e","s","t","s","_","_","/","M","o","d","a","l",".","t",
              "e","s","t",".","j","s","x" >>,
        testFunctionName |->
           << "M","o","d","a","l"," ","c","o","m","p","o","n","e","n","t"," ",
              "t","e","s","t","s" >>,
        coveragePercentage |-> JSNumber(68), priority |-> "medium",
        lastUpdated |-> "2024-01-11", status |-> "inactive" ]
    >>

-----------------------------------------------------------------------------
(* Repositories page.                                                      *)

\* useState(8)
repositoriesItemsPerPage == 8

\* the form's initial value, and resetForm
repositoriesFormDefaults ==
    [ name        |-> <<>>,
      url         |-> "",
      description |-> <<>>,
      language    |-> <<>>,
      status      |-> "active",
      branch      |-> "main",
      lastSync    |-> Today ]

\* the useState initial values
repositoriesInitial ==
    [ repositories |-> <<>>,
      loading      |-> FALSE,
      showForm     |-> FALSE,
      editingRepo  |-> Null,
      searchTerm   |-> <<>>,
      filterStatus |-> "all",
      currentPage  |-> 1,
      formData     |-> repositoriesFormDefaults ]

\* after the mount effect: setLoading(true), the timer is running
repositoriesMounted == [repositoriesInitial EXCEPT !.loading = TRUE]

\* mutant of repoMatchesSearch: the search text is not lower-cased
repoMatchesSearch_caseSensitive(repo, searchTerm) ==
    \/ includes(toLowerCase(repo.name), searchTerm)
    \/ includes(toLowerCase(repo.description), searchTerm)
    \/ includes(toLowerCase(repo.language), searchTerm)

repoMatchesSearch(repo, searchTerm) ==
    \/ includes(toLowerCase(repo.name), toLowerCase(searchTerm))
    \/ includes(toLowerCase(repo.description), toLowerCase(searchTerm))
    \/ includes(toLowerCase(repo.language), toLowerCase(searchTerm))

\* mutant of repoMatchesFilter: 'all' is compared with the record's status
repoMatchesFilter_noAll(repo, filterStatus) == repo.status = filterStatus

repoMatchesFilter(repo, filterStatus) ==
    filterStatus = "all" \/ repo.status = filterStatus

\* repositories.filter(repo => matchesSearch && matchesFilter)
filterRepositories(repositories, searchTerm, filterStatus) ==
    SelectSeq(repositories,
              LAMBDA repo : /\ repoMatchesSearch(repo, searchTerm)
                            /\ repoMatchesFilter(repo, filterStatus))

filteredRepositories ==
    filterRepositories(repositoriesPage.repositories, repositoriesPage.searchTerm,
                       repositoriesPage.filterStatus)

repositoriesTotalPages == ceil(Len(filteredRepositories), repositoriesItemsPerPage)

\* mutant of paginatedRepositories: the slice ends one record too late
paginatedRepositories_offByOne ==
    slice(filteredRepositories,
          (repositoriesPage.currentPage - 1) * repositoriesItemsPerPage,
          repositoriesPage.currentPage * repositoriesItemsPerPage + 1)

paginatedRepositories ==
    slice(filteredRepositories,
          (repositoriesPage.currentPage - 1) * repositoriesItemsPerPage,
          repositoriesPage.currentPage * repositoriesItemsPerPage)

\* the page is rendered (not the spinner) and its handlers can be reached
RepositoriesShown == route = "/repositories" /\ ~repositoriesPage.loading

\* mutant of Repositories_loaded: the mount effect loads the data into the
\* shared state as well
Repositories_loaded_intoContext ==
    /\ route = "/repositories"
    /\ repositoriesPage.loading
    /\ repositoriesPage' = [repositoriesPage EXCEPT !.repositories = mockRepositories,
                                                    !.loading = FALSE]
    /\ state' = Dispatch(state, [type |-> "SET_REPOSITORIES", payload |-> <<[id |-> 1]>>])
    /\ UNCHANGED <<route, coveragePage, now, changes, calls, settled, opsStarted, uiVars>>

\* the timer of the mount effect fires: the mock data is loaded
Repositories_loaded ==
    /\ route = "/repositories"
    /\ repositoriesPage.loading
    /\ repositoriesPage' = [repositoriesPage EXCEPT !.repositories = mockRepositories,
                                                    !.loading = FALSE]
    /\ UNCHANGED <<route, coveragePage, now, changes, ctxVars, uiVars>>

\* the Add Repository button
Repositories_add ==
    /\ RepositoriesShown
    /\ repositoriesPage' = [repositoriesPage EXCEPT !.showForm = TRUE,
                                                    !.editingRepo = Null,
                                                    !.formData = repositoriesFormDefaults]
    /\ UNCHANGED <<route, coveragePage, now, changes, ctxVars, uiVars>>

\* onChange of a field of the form
Repositories_setFormData(field, value) ==
    /\ RepositoriesShown
    /\ repositoriesPage.showForm
    /\ repositoriesPage' = [repositoriesPage EXCEPT !.formData[field] = value]
    /\ UNCHANGED <<route, coveragePage, now, changes, ctxVars, uiVars>>

\* the update branch of handleSubmit
repositoriesUpdated(repositories, editingRepo, formData) ==
    [i \in DOMAIN repositories |->
        IF repositories[i].id = editingRepo.id
        THEN Spread(formData, [id |-> repositories[i].id])
        ELSE repositories[i]]

\* mutant of repositoriesAdded: the new record replaces the first one
repositoriesAdded_replaceHead(repositories, formData, t) ==
    <<Spread(formData, [id |-> t, stars |-> 0, forks |-> 0, issues |-> 0,
                        pullRequests |-> 0, coverage |-> 0, lastCommit |-> "Just now"])>>
       \o Tail(repositories)

\* the add branch of handleSubmit, Date.now() reading t
repositoriesAdded(repositories, formData, t) ==
    <<Spread(formData, [id |-> t, stars |-> 0, forks |-> 0, issues |-> 0,
                        pullRequests |-> 0, coverage |-> 0, lastCommit |-> "Just now"])>>
       \o repositories

\* the form is submitted (name and url are required); the clock reads t
Repositories_handleSubmit(t) ==
    /\ RepositoriesShown
    /\ repositoriesPage.showForm
    /\ repositoriesPage.formData.name # <<>>
    /\ repositoriesPage.formData.url # ""
    /\ IF repositoriesPage.editingRepo # Null
       THEN /\ repositoriesPage' =
                 [repositoriesPage EXCEPT
                    !.repositories = repositoriesUpdated(@, repositoriesPage.editingRepo,
                                                         repositoriesPage.formData),
                    !.editingRepo = Null,
                    !.formData = repositoriesFormDefaults,
                    !.showForm = FALSE]
            /\ now' = now
       ELSE /\ Len(repositoriesPage.repositories) < MaxRepositories
            /\ t >= now
            /\ repositoriesPage' =
                 [repositoriesPage EXCEPT
                    !.repositories = repositoriesAdded(@, repositoriesPage.formData, t),
                    !.formData = repositoriesFormDefaults,
                    !.showForm = FALSE]
            /\ now' = t
    /\ UNCHANGED <<route, coveragePage, changes, ctxVars, uiVars>>

\* mutant of Repositories_cancel: the record being edited is not let go of
Repositories_cancel_keepEditing ==
    /\ RepositoriesShown
    /\ repositoriesPage.showForm
    /\ repositoriesPage' = [repositoriesPage EXCEPT !.showForm = FALSE,
                                                    !.formData = repositoriesFormDefaults]
    /\ UNCHANGED <<route, coveragePage, now, changes, ctxVars, uiVars>>

\* the Cancel button of the form
Repositories_cancel ==
    /\ RepositoriesShown
    /\ repositoriesPage.showForm
    /\ repositoriesPage' = [repositoriesPage EXCEPT !.showForm = FALSE,
                                                    !.editingRepo = Null,
                                                    !.formData = repositoriesFormDefaults]
    /\ UNCHANGED <<route, coveragePage, now, changes, ctxVars, uiVars>>

\* the Edit button of a repository on the visible page
Repositories_handleEdit(repo) ==
    /\ RepositoriesShown
    /\ repositoriesPage' =
         [repositoriesPage EXCEPT
            !.editingRepo = repo,
            !.formData = [ name        |-> repo.name,
                           url         |-> repo.url,
                           description |-> repo.description,
                           language    |-> repo.language,
                           status      |-> repo.status,
                           branch      |-> repo.branch,
                           lastSync    |-> repo.lastSync ],
            !.showForm = TRUE]
    /\ changes < MaxChanges
    /\ changes' = changes + 1
    /\ UNCHANGED <<route, coveragePage, now, ctxVars, uiVars>>

\* the Delete button of a repository on the visible page, and the answer to
\* window.confirm
Repositories_handleDelete(id, confirmed) ==
    /\ RepositoriesShown
    /\ IF confirmed
       THEN /\ changes < MaxChanges
            /\ repositoriesPage' =
                 [repositoriesPage EXCEPT
                    !.repositories = SelectSeq(@, LAMBDA repo : repo.id # id)]
            /\ changes' = changes + 1
       ELSE UNCHANGED <<repositoriesPage, changes>>
    /\ UNCHANGED <<route, coveragePage, now, ctxVars, uiVars>>

\* the Sync button of a repository on the visible page
Repositories_handleSync(id) ==
    /\ RepositoriesShown
    /\ changes < MaxChanges
    /\ repositoriesPage' =
         [repositoriesPage EXCEPT
            !.repositories =
               [i \in DOMAIN @ |->
                   IF @[i].id = id
                   THEN Spread(@[i], [lastSync |-> Today, lastCommit |-> "Just now"])
                   ELSE @[i]]]
    /\ changes' = changes + 1
    /\ UNCHANGED <<route, coveragePage, now, ctxVars, uiVars>>

\* onChange of the search input
Repositories_setSearchTerm(value) ==
    /\ RepositoriesShown
    /\ repositoriesPage' = [repositoriesPage EXCEPT !.searchTerm = value]
    /\ UNCHANGED <<route, coveragePage, now, changes, ctxVars, uiVars>>

\* onChange of the status select
Repositories_setFilterStatus(value) ==
    /\ RepositoriesShown
    /\ repositoriesPage' = [repositoriesPage EXCEPT !.filterStatus = value]
    /\ UNCHANGED <<route, coveragePage, now, changes, ctxVars, uiVars>>

\* the Previous button: rendered when totalPages > 1, disabled on page 1
Repositories_previous ==
    /\ RepositoriesShown
    /\ repositoriesPage.currentPage # 1
    /\ repositoriesTotalPages > 1
    /\ repositoriesPage' =
         [repositoriesPage EXCEPT !.currentPage = IF @ - 1 > 1 THEN @ - 1 ELSE 1]
    /\ UNCHANGED <<route, coveragePage, now, changes, ctxVars, uiVars>>

\* mutant of Repositories_next: the button is not disabled on the last page
\* and the page is not held at totalPages
Repositories_next_noClamp ==
    /\ RepositoriesShown
    /\ repositoriesTotalPages > 1
    /\ repositoriesPage.currentPage <= repositoriesTotalPages
    /\ repositoriesPage' = [repositoriesPage EXCEPT !.currentPage = @ + 1]
    /\ UNCHANGED <<route, coveragePage, now, changes, ctxVars, uiVars>>

\* the Next button: rendered when totalPages > 1, disabled on the last page
Repositories_next ==
    /\ RepositoriesShown
    /\ repositoriesTotalPages > 1
    /\ repositoriesPage.currentPage # repositoriesTotalPages
    /\ repositoriesPage' =
         [repositoriesPage EXCEPT
            !.currentPage = IF @ + 1 < repositoriesTotalPages
                            THEN @ + 1 ELSE repositoriesTotalPages]
    /\ UNCHANGED <<route, coveragePage, now, changes, ctxVars, uiVars>>

\* a page-number button: one per page, rendered when totalPages > 1
Repositories_setCurrentPage(page) ==
    /\ RepositoriesShown
    /\ repositoriesTotalPages > 1
    /\ page \in 1..repositoriesTotalPages
    /\ repositoriesPage' = [repositoriesPage EXCEPT !.currentPage = page]
    /\ UNCHANGED <<route, coveragePage, now, changes, ctxVars, uiVars>>

-----------------------------------------------------------------------------
(* Coverage page.                                                          *)

\* useState(10)
coverageItemsPerPage == 10

\* Number.prototype.toString, and String.prototype.toString
toString(v) == IF "number" \in DOMAIN v THEN JSString(ToString(v.number)) ELSE v

\* the form's initial value, and resetForm
coverageFormDefaults ==
    [ filePath           |-> <<>>,
      testFilePath       |-> <<>>,
      testFunctionName   |-> <<>>,
      coveragePercentage |-> JSString(""),
      priority           |-> "medium",
      lastUpdated        |-> Today ]

\* the useState initial values
coverageInitial ==
    [ mappings       |-> <<>>,
      loading        |-> FALSE,
      showForm       |-> FALSE,
      editingMapping |-> Null,
      searchTerm     |-> <<>>,
      filterType     |-> "all",
      currentPage    |-> 1,
      formData       |-> coverageFormDefaults ]

\* after the mount effect: setLoading(true), the timer is running
coverageMounted == [coverageInitial EXCEPT !.loading = TRUE]

mappingMatchesSearch(mapping, searchTerm) ==
    \/ includes(toLowerCase(mapping.filePath), toLowerCase(searchTerm))
    \/ includes(toLowerCase(mapping.testFilePath), toLowerCase(searchTerm))
    \/ includes(toLowerCase(mapping.testFunctionName), toLowerCase(searchTerm))

mappingMatchesFilter(mapping, filterType) ==
    filterType = "all" \/ mapping.priority = filterType

\* mappings.filter(mapping => matchesSearch && matchesFilter)
filterMappings(mappings, searchTerm, filterType) ==
    SelectSeq(mappings,
              LAMBDA mapping : /\ mappingMatchesSearch(mapping, searchTerm)
                               /\ mappingMatchesFilter(mapping, filterType))

filteredMappings ==
    filterMappings(coveragePage.mappings, coveragePage.searchTerm, coveragePage.filterType)

coverageTotalPages == ceil(Len(filteredMappings), coverageItemsPerPage)

paginatedMappings ==
    slice(filteredMappings,
          (coveragePage.currentPage - 1) * coverageItemsPerPage,
          coveragePage.currentPage * coverageItemsPerPage)

\* the page is rendered (not the spinner) and its handlers can be reached
CoverageShown == route = "/coverage" /\ ~coveragePage.loading

\* the timer of the mount effect fires: the mock data is loaded
Coverage_loaded ==
    /\ route = "/coverage"
    /\ coveragePage.loading
    /\ coveragePage' = [coveragePage EXCEPT !.mappings = mockMappings, !.loading = FALSE]
    /\ UNCHANGED <<route, repositoriesPage, now, changes, ctxVars, uiVars>>

\* the New Mapping button
Coverage_add ==
    /\ CoverageShown
    /\ coveragePage' = [coveragePage EXCEPT !.showForm = TRUE,
                                            !.editingMapping = Null,
                                            !.formData = coverageFormDefaults]
    /\ UNCHANGED <<route, repositoriesPage, now, changes, ctxVars, uiVars>>

\* onChange of a field of the form
Coverage_setFormData(field, value) ==
    /\ CoverageShown
    /\ coveragePage.showForm
    /\ coveragePage' = [coveragePage EXCEPT !.formData[field] = value]
    /\ UNCHANGED <<route, repositoriesPage, now, changes, ctxVars, uiVars>>

\* the update branch of handleSubmit
mappingsUpdated(mappings, editingMapping, formData) ==
    [i \in DOMAIN mappings |->
        IF mappings[i].id = editingMapping.id
        THEN Spread(formData, [id |-> mappings[i].id, status |-> "active"])
        ELSE mappings[i]]

\* the add branch of handleSubmit, Date.now() reading t
mappingsAdded(mappings, formData, t) ==
    <<Spread(formData, [id |-> t, status |-> "active"])>> \o mappings

\* the form is submitted (the paths, the function name and the percentage are
\* required); the clock reads t
Coverage_handleSubmit(t) ==
    /\ CoverageShown
    /\ coveragePage.showForm
    /\ coveragePage.formData.filePath # <<>>
    /\ coveragePage.formData.testFilePath # <<>>
    /\ coveragePage.formData.testFunctionName # <<>>
    /\ coveragePage.formData.coveragePercentage # JSString("")
    /\ IF coveragePage.editingMapping # Null
       THEN /\ coveragePage' =
                 [coveragePage EXCEPT
                    !.mappings = mappingsUpdated(@, coveragePage.editingMapping,
                                                 coveragePage.formData),
                    !.editingMapping = Null,
                    !.formData = coverageFormDefaults,
                    !.showForm = FALSE]
            /\ now' = now
       ELSE /\ Len(coveragePage.mappings) < MaxMappings
            /\ t >= now
            /\ coveragePage' =
                 [coveragePage EXCEPT
                    !.mappings = mappingsAdded(@, coveragePage.formData, t),
                    !.formData = coverageFormDefaults,
                    !.showForm = FALSE]
            /\ now' = t
    /\ UNCHANGED <<route, repositoriesPage, changes, ctxVars, uiVars>>

\* the Cancel button of the form
Coverage_cancel ==
    /\ CoverageShown
    /\ coveragePage.showForm
    /\ coveragePage' = [coveragePage EXCEPT !.showForm = FALSE,
                                            !.editingMapping = Null,
                                            !.formData = coverageFormDefaults]
    /\ UNCHANGED <<route, repositoriesPage, now, changes, ctxVars, uiVars>>

\* the Edit button of a mapping on the visible page
Coverage_handleEdit(mapping) ==
    /\ CoverageShown
    /\ coveragePage' =
         [coveragePage EXCEPT
            !.editingMapping = mapping,
            !.formData = [ filePath           |-> mapping.filePath,
                           testFilePath       |-> mapping.testFilePath,
                           testFunctionName   |-> mapping.testFunctionName,
                           coveragePercentage |-> toString(mapping.coveragePercentage),
                           priority           |-> mapping.priority,
                           lastUpdated        |-> mapping.lastUpdated ],
            !.showForm = TRUE]
    /\ changes < MaxChanges
    /\ changes' = changes + 1
    /\ UNCHANGED <<route, repositoriesPage, now, ctxVars, uiVars>>

\* the Delete button of a mapping on the visible page, and the answer to
\* window.confirm
Coverage_handleDelete(id, confirmed) ==
    /\ CoverageShown
    /\ IF confirmed
       THEN /\ changes < MaxChanges
            /\ coveragePage' =
                 [coveragePage EXCEPT
                    !.mappings = SelectSeq(@, LAMBDA mapping : mapping.id # id)]
            /\ changes' = changes + 1
       ELSE UNCHANGED <<coveragePage, changes>>
    /\ UNCHANGED <<route, repositoriesPage, now, ctxVars, uiVars>>

\* onChange of the search input
Coverage_setSearchTerm(value) ==
    /\ CoverageShown
    /\ coveragePage' = [coveragePage EXCEPT !.searchTerm = value]
    /\ UNCHANGED <<route, repositoriesPage, now, changes, ctxVars, uiVars>>

\* onChange of the priority select
Coverage_setFilterType(value) ==
    /\ CoverageShown
    /\ coveragePage' = [coveragePage EXCEPT !.filterType = value]
    /\ UNCHANGED <<route, repositoriesPage, now, changes, ctxVars, uiVars>>

\* the Previous button: rendered when totalPages > 1, disabled on page 1
Coverage_previous ==
    /\ CoverageShown
    /\ coveragePage.currentPage # 1
    /\ coverageTotalPages > 1
    /\ coveragePage' =
         [coveragePage EXCEPT !.currentPage = IF @ - 1 > 1 THEN @ - 1 ELSE 1]
    /\ UNCHANGED <<route, repositoriesPage, now, changes, ctxVars, uiVars>>

\* the Next button: rendered when totalPages > 1, disabled on the last page
Coverage_next ==
    /\ CoverageShown
    /\ coverageTotalPages > 1
    /\ coveragePage.currentPage # coverageTotalPages
    /\ coveragePage' =
         [coveragePage EXCEPT
            !.currentPage = IF @ + 1 < coverageTotalPages
                            THEN @ + 1 ELSE coverageTotalPages]
    /\ UNCHANGED <<route, repositoriesPage, now, changes, ctxVars, uiVars>>

\* a page-number button: one per page, rendered when totalPages > 1
Coverage_setCurrentPage(page) ==
    /\ CoverageShown
    /\ coverageTotalPages > 1
    /\ page \in 1..coverageTotalPages
    /\ coveragePage' = [coveragePage EXCEPT !.currentPage = page]
    /\ UNCHANGED <<route, repositoriesPage, now, changes, ctxVars, uiVars>>

-----------------------------------------------------------------------------
(* ThemeContext: the theme flag, the persisted preference and the dark     *)
(* class of the document.                                                  *)

\* the theme when the flag is isDark
themeOf(isDark) == [isDark |-> isDark, persisted |-> isDark, darkClass |-> isDark]

\* toggleTheme()
toggleTheme == themeOf(~theme.isDark)

\* mutant of Navbar_toggleTheme: the flag is flipped, the preference is not
\* persisted
Navbar_toggleTheme_notPersisted ==
    /\ theme' = [theme EXCEPT !.isDark = ~@, !.darkClass = ~@]
    /\ UNCHANGED <<ctxVars, pageVars, analysisPage>>

\* the theme button of the Navbar
Navbar_toggleTheme ==
    /\ theme' = toggleTheme
    /\ UNCHANGED <<ctxVars, pageVars, analysisPage>>

\* the theme button of the Sidebar (of its mobile dialog, of its desktop
\* column)
Sidebar_toggleTheme ==
    /\ theme' = toggleTheme
    /\ UNCHANGED <<ctxVars, pageVars, analysisPage>>

\* the Dark Mode switch of the Appearance tab of Settings
Settings_toggleTheme ==
    /\ route = "/settings"
    /\ theme' = toggleTheme
    /\ UNCHANGED <<ctxVars, pageVars, analysisPage>>

-----------------------------------------------------------------------------
(* Analysis page.  The indexes of changedFiles are counted from 0.         *)

\* the entry addChangedFile appends, and the first entry of the form
newChangedFile == [path |-> "", type |-> "source"]

\* the useState initial values; timers counts the timers of handleSubmit
\* that have not fired
analysisInitial ==
    [ formData       |-> [ repository    |-> "",
                           branch        |-> "main",
                           pullRequestId |-> "",
                           changedFiles  |-> <<newChangedFile>> ],
      isAnalyzing    |-> FALSE,
      analysisResult |-> Null,
      error          |-> Null,
      timers         |-> 0 ]

\* the values of fileTypes
fileTypes == {"source", "test", "config", "docs"}

\* the mock analysis result of handleSubmit
mockResult ==
    [ selectedTests      |-> <<"Button.test.jsx", "helpers.test.js", "integration.test.js">>,
      estimatedTimeSaved |-> "15.5",
      riskScore          |-> "0.25",
      coverageBreakdown  |-> [high |-> 1, medium |-> 1, low |-> 1] ]

AnalysisShown == route = "/analysis"

\* [...prev.changedFiles, { path: '', type: 'source' }]
changedFilesAdded(changedFiles) == Append(changedFiles, newChangedFile)

\* mutant of changedFilesRemoved: the entries equal to the one at index are
\* removed
changedFilesRemoved_byValue(changedFiles, index) ==
    SelectSeq(changedFiles, LAMBDA file : file # changedFiles[index + 1])

\* prev.changedFiles.filter((_, i) => i !== index)
changedFilesRemoved(changedFiles, index) ==
    [i \in 1..(Len(changedFiles) - (IF index + 1 \in DOMAIN changedFiles THEN 1 ELSE 0)) |->
        IF i - 1 < index THEN changedFiles[i] ELSE changedFiles[i + 1]]

\* prev.changedFiles.map((file, i) => i === index ? { ...file, [field]: value } : file)
changedFilesUpdated(changedFiles, index, field, value) ==
    [i \in DOMAIN changedFiles |->
        IF i - 1 = index
        THEN Spread(changedFiles[i], [f \in {field} |-> value])
        ELSE changedFiles[i]]

\* the Add File button
Analysis_addChangedFile ==
    /\ AnalysisShown
    /\ Len(analysisPage.formData.changedFiles) < MaxChangedFiles
    /\ analysisPage' =
         [analysisPage EXCEPT !.formData.changedFiles = changedFilesAdded(@)]
    /\ UNCHANGED <<ctxVars, pageVars, theme>>

\* mutant of Analysis_removeChangedFile: the button is rendered for a single
\* entry as well
Analysis_removeChangedFile_always(index) ==
    /\ AnalysisShown
    /\ index + 1 \in DOMAIN analysisPage.formData.changedFiles
    /\ analysisPage' =
         [analysisPage EXCEPT !.formData.changedFiles = changedFilesRemoved(@, index)]
    /\ UNCHANGED <<ctxVars, pageVars, theme>>

\* the remove button of entry index, rendered when the list has more than
\* one entry
Analysis_removeChangedFile(index) ==
    /\ AnalysisShown
    /\ Len(analysisPage.formData.changedFiles) > 1
    /\ index + 1 \in DOMAIN analysisPage.formData.changedFiles
    /\ analysisPage' =
         [analysisPage EXCEPT !.formData.changedFiles = changedFilesRemoved(@, index)]
    /\ UNCHANGED <<ctxVars, pageVars, theme>>

\* onChange of the type select or of the path input of entry index
Analysis_updateChangedFile(index, field, value) ==
    /\ AnalysisShown
    /\ index + 1 \in DOMAIN analysisPage.formData.changedFiles
    /\ analysisPage' =
         [analysisPage EXCEPT
            !.formData.changedFiles = changedFilesUpdated(@, index, field, value)]
    /\ UNCHANGED <<ctxVars, pageVars, theme>>

\* onChange of the repository, branch or pull request input
Analysis_setFormData(field, value) ==
    /\ AnalysisShown
    /\ analysisPage' = [analysisPage EXCEPT !.formData[field] = value]
    /\ UNCHANGED <<ctxVars, pageVars, theme>>

\* mutant of Analysis_handleSubmit: the submit button is not disabled while
\* isAnalyzing
Analysis_handleSubmit_enabled ==
    /\ AnalysisShown
    /\ analysisPage.formData.repository # ""
    /\ \A i \in DOMAIN analysisPage.formData.changedFiles :
          analysisPage.formData.changedFiles[i].path # ""
    /\ analysisPage' = [analysisPage EXCEPT !.isAnalyzing = TRUE, !.error = Null,
                                            !.timers = @ + 1]
    /\ UNCHANGED <<ctxVars, pageVars, theme>>

\* the form is submitted (the repository and every path are required, the
\* submit button is disabled while isAnalyzing): handleSubmit up to its await
Analysis_handleSubmit ==
    /\ AnalysisShown
    /\ ~analysisPage.isAnalyzing
    /\ analysisPage.formData.repository # ""
    /\ \A i \in DOMAIN analysisPage.formData.changedFiles :
          analysisPage.formData.changedFiles[i].path # ""
    /\ analysisPage' = [analysisPage EXCEPT !.isAnalyzing = TRUE, !.error = Null,
                                            !.timers = @ + 1]
    /\ UNCHANGED <<ctxVars, pageVars, theme>>

\* the timer of handleSubmit fires: the rest of handleSubmit and its finally
Analysis_analysed ==
    /\ AnalysisShown
    /\ analysisPage.timers > 0
    /\ analysisPage' =
         [analysisPage EXCEPT !.analysisResult = mockResult, !.isAnalyzing = FALSE,
                              !.timers = @ - 1]
    /\ UNCHANGED <<ctxVars, pageVars, theme>>

-----------------------------------------------------------------------------
(* Router: a link of the Sidebar unmounts the page shown, whose state is    *)
(* lost, and mounts the other one.  The ids a page draws from the clock are *)
(* compared only with ids held by the same mounted page, so the clock is    *)
(* counted from the mount of the page shown.                                *)

Navigate(path) ==
    /\ path # route
    /\ route' = path
    /\ repositoriesPage' =
         IF path = "/repositories" THEN repositoriesMounted ELSE repositoriesInitial
    /\ coveragePage' = IF path = "/coverage" THEN coverageMounted ELSE coverageInitial
    /\ now' = 100
    /\ analysisPage' = analysisInitial
    /\ UNCHANGED <<changes, ctxVars, theme>>

-----------------------------------------------------------------------------
(* The shared context, with every operation a component may call.          *)

\* the providers are mounted and no operation has been called
CtxInit ==
    /\ state = initialState
    /\ calls = <<>>
    /\ settled = [outcome |-> "none"]
    /\ opsStarted = 0

\* the application is opened on the Dashboard; neither page is mounted
PagesInit ==
    /\ route = "/"
    /\ repositoriesPage = repositoriesInitial
    /\ coveragePage = coverageInitial
    /\ now = 100
    /\ changes = 0
    /\ analysisPage = analysisInitial

\* the light theme is the preference found
ThemeInit == theme = themeOf(FALSE)

Init == CtxInit /\ PagesInit /\ ThemeInit

CtxNext ==
    \/ \E op \in Operations : StartOperation(op)
    \/ \E c \in InFlight, error \in FetchErrors : FetchRejects(c, error)
    \/ \E c \in InFlight, response \in Responses : FetchResolves(c, response)
    \/ \E c \in InFlight, error \in JsonErrors : JsonRejects(c, error)
    \/ \E c \in InFlight : \E data \in Bodies(calls[c].op, calls[c].request) :
          JsonResolves(c, data)
    \/ \E c \in InFlight : OperationResolves(c)
    \/ \E c \in InFlight : RefreshCoverageMappings(c)
    \/ \E c \in InFlight : OperationRejects(c)
    \/ \E analysis \in {Null, [id |-> 1]} : setCurrentAnalysis(analysis)
    \/ clearError

SpecCtx == Init /\ [][CtxNext]_vars

-----------------------------------------------------------------------------
(* The Repositories and Coverage pages, with every control of theirs a     *)
(* user may operate.                                                       *)

\* the paths of the routes of App
Routes == {"/", "/analysis", "/coverage", "/repositories", "/settings"}

\* what Date.now() may read at a submission: the clock has advanced since the
\* submission before
Ticks == {now + 1}

\* texts typed into the search inputs
SearchTerms == {<<>>, <<"a", "p", "i">>}

\* what is typed next into a form: its first field is typed, or retyped when
\* a record is edited, and the empty fields after it are filled from the top
NextInput(typed, formData, empty) ==
    { typed[k] : k \in { i \in DOMAIN typed :
                           /\ formData[typed[i].field] # typed[i].value
                           /\ i > 1 => formData[typed[i].field] = empty[typed[i].field]
                           /\ \A j \in 1..(i - 1) :
                                 formData[typed[j].field] # empty[typed[j].field] } }

\* values typed into the required fields of the form of the Repositories page
RepositoriesFormInputs ==
    << [field |-> "name", value |-> <<"A", "p", "i">>],
       [field |-> "url", value |-> "https://github.com/company/api"] >>

\* values typed into the required fields of the form of the Coverage page
CoverageFormInputs ==
    << [field |-> "filePath", value |-> <<"a", ".", "j", "s">>],
       [field |-> "testFilePath",
        value |-> <<"a", ".", "t", "e", "s", "t", ".", "j", "s">>],
       [field |-> "testFunctionName", value |-> <<"t", "e", "s", "t", "A", "p", "i">>],
       [field |-> "coveragePercentage", value |-> JSString("80")] >>

\* the buttons of a record are operated while the budget of changes lasts (a
\* deletion that is not confirmed changes nothing)
RepositoriesNext ==
    \/ Repositories_loaded
    \/ Repositories_add
    \/ \E input \in NextInput(RepositoriesFormInputs, repositoriesPage.formData,
                               repositoriesFormDefaults) :
          Repositories_setFormData(input.field, input.value)
    \/ \E t \in Ticks : Repositories_handleSubmit(t)
    \/ Repositories_cancel
    \/ /\ changes < MaxChanges
       /\ \E i \in DOMAIN paginatedRepositories :
             Repositories_handleEdit(paginatedRepositories[i])
    \/ /\ changes < MaxChanges
       /\ \E i \in DOMAIN paginatedRepositories, confirmed \in BOOLEAN :
             Repositories_handleDelete(paginatedRepositories[i].id, confirmed)
    \/ /\ changes < MaxChanges
       /\ \E i \in DOMAIN paginatedRepositories :
             Repositories_handleSync(paginatedRepositories[i].id)
    \/ \E value \in SearchTerms : Repositories_setSearchTerm(value)
    \/ \E value \in {"all", "inactive"} :
          Repositories_setFilterStatus(value)
    \/ Repositories_previous
    \/ Repositories_next
    \/ \E page \in 1..repositoriesTotalPages : Repositories_setCurrentPage(page)

CoverageNext ==
    \/ Coverage_loaded
    \/ Coverage_add
    \/ \E input \in NextInput(CoverageFormInputs, coveragePage.formData, coverageFormDefaults) :
          Coverage_setFormData(input.field, input.value)
    \/ \E t \in Ticks : Coverage_handleSubmit(t)
    \/ Coverage_cancel
    \/ /\ changes < MaxChanges
       /\ \E i \in DOMAIN paginatedMappings : Coverage_handleEdit(paginatedMappings[i])
    \/ /\ changes < MaxChanges
       /\ \E i \in DOMAIN paginatedMappings, confirmed \in BOOLEAN :
             Coverage_handleDelete(paginatedMappings[i].id, confirmed)
    \/ \E value \in SearchTerms : Coverage_setSearchTerm(value)
    \/ \E value \in {"all", "high"} : Coverage_setFilterType(value)
    \/ Coverage_previous
    \/ Coverage_next
    \/ \E page \in 1..coverageTotalPages : Coverage_setCurrentPage(page)

PagesNext ==
    \/ \E path \in Routes : Navigate(path)
    \/ RepositoriesNext
    \/ CoverageNext

SpecPages == Init /\ [][PagesNext]_vars

-----------------------------------------------------------------------------
(* The Analysis page and the theme toggles.                                *)

\* values typed into the repository, branch and pull request inputs
AnalysisFormInputs ==
    { [field |-> "repository", value |-> "company/api"],
      [field |-> "branch", value |-> "develop"] }

\* values typed or chosen in an entry of changedFiles
ChangedFileInputs ==
    { [field |-> "path", value |-> "src/api.js"],
      [field |-> "type", value |-> "test"] }

AnalysisNext ==
    \/ \E path \in Routes : Navigate(path)
    \/ Navbar_toggleTheme
    \/ Sidebar_toggleTheme
    \/ Settings_toggleTheme
    \/ Analysis_addChangedFile
    \/ \E index \in 0..(Len(analysisPage.formData.changedFiles) - 1) :
          Analysis_removeChangedFile(index)
    \/ \E index \in 0..(Len(analysisPage.formData.changedFiles) - 1),
          input \in ChangedFileInputs :
          Analysis_updateChangedFile(index, input.field, input.value)
    \/ \E input \in AnalysisFormInputs : Analysis_setFormData(input.field, input.value)
    \/ Analysis_handleSubmit
    \/ Analysis_analysed

SpecAnalysis == Init /\ [][AnalysisNext]_vars

\* the timer of handleSubmit fires when its two seconds have passed
SpecAnalysisFair == SpecAnalysis /\ WF_vars(Analysis_analysed)

-----------------------------------------------------------------------------
(* Properties of the theme and of the Analysis form.                       *)

ChangedFiles == analysisPage.formData.changedFiles

\* C13: addChangedFile appends one entry {path: '', type: 'source'} at the
\* end of changedFiles and leaves the entries before it as they were;
\* removeChangedFile(index) removes the entry at index and keeps the others
\* in their order; updateChangedFile(index, field, value) changes that
\* field of that entry and nothing else.
C13_ChangedFiles ==
    [][ /\ Analysis_addChangedFile =>
             /\ Len(ChangedFiles') = Len(ChangedFiles) + 1
             /\ ChangedFiles'[Len(ChangedFiles')] = [path |-> "", type |-> "source"]
             /\ \A i \in DOMAIN ChangedFiles : ChangedFiles'[i] = ChangedFiles[i]
        /\ \A index \in 0..(Len(ChangedFiles) - 1) :
             Analysis_removeChangedFile(index) =>
                /\ Len(ChangedFiles') = Len(ChangedFiles) - 1
                /\ \A i \in DOMAIN ChangedFiles' :
                      ChangedFiles'[i] = ChangedFiles[IF i <= index THEN i ELSE i + 1]
        /\ \A index \in 0..(Len(ChangedFiles) - 1), input \in ChangedFileInputs :
             Analysis_updateChangedFile(index, input.field, input.value) =>
                /\ Len(ChangedFiles') = Len(ChangedFiles)
                /\ \A i \in DOMAIN ChangedFiles :
                      \A f \in {"path", "type"} :
                         ChangedFiles'[i][f] =
                            IF i = index + 1 /\ f = input.field
                            THEN input.value ELSE ChangedFiles[i][f]
                /\ \A i \in DOMAIN ChangedFiles :
                      DOMAIN ChangedFiles'[i] = {"path", "type"} ]_vars

\* two entries have been added and the one in the middle updated
C13_Witness ==
    /\ route = "/analysis"
    /\ ChangedFiles = << [path |-> "", type |-> "source"],
                         [path |-> "src/api.js", type |-> "test"],
                         [path |-> "", type |-> "source"] >>

-----------------------------------------------------------------------------
(* The filters of the two pages as functions of the list, the search text  *)
(* and the select value: the page shown holds any short list of records    *)
(* made with its form, and its search input and select are operated.       *)

\* the sequences over S of length n at most
SeqsUpTo(S, n) == UNION { [1..k -> S] : k \in 0..n }

\* what the form of the Repositories page was filled with
FilterRepositoryForms ==
    { Spread(repositoriesFormDefaults, texts) : texts \in
        { [name |-> <<"A", "p", "i">>, description |-> <<>>,
           language |-> <<"G", "o">>, status |-> "active"],
          [name |-> <<"w", "e", "b">>, description |-> <<"A", "P", "I">>,
           language |-> <<>>, status |-> "inactive"],
          [name |-> <<"d", "b">>, description |-> <<>>,
           language |-> <<"P", "i">>, status |-> "archived"],
          [name |-> <<"u", "i">>, description |-> <<"x">>,
           language |-> <<>>, status |-> "active"],
          [name |-> <<"a", "p">>, description |-> <<"i">>,
           language |-> <<>>, status |-> "inactive"] } }

\* what the form of the Coverage page was filled with
FilterMappingForms ==
    { Spread(coverageFormDefaults, texts) : texts \in
        { [filePath |-> <<"A", "p", "i">>, testFilePath |-> <<"t">>,
           testFunctionName |-> <<"G", "o">>, priority |-> "high"],
          [filePath |-> <<"w", "e", "b">>, testFilePath |-> <<"A", "P", "I">>,
           testFunctionName |-> <<"t">>, priority |-> "medium"],
          [filePath |-> <<"d", "b">>, testFilePath |-> <<"t">>,
           testFunctionName |-> <<"P", "i">>, priority |-> "low"],
          [filePath |-> <<"u", "i">>, testFilePath |-> <<"x">>,
           testFunctionName |-> <<"t">>, priority |-> "high"],
          [filePath |-> <<"a", "p">>, testFilePath |-> <<"i">>,
           testFunctionName |-> <<"t">>, priority |-> "medium"] } }

\* the list the forms make when submitted one after the other, the clock
\* reading 100 + i at the i-th submission
repositoriesOf(forms) ==
    [i \in DOMAIN forms |-> repositoriesAdded(<<>>, forms[Len(forms) + 1 - i],
                                              100 + Len(forms) + 1 - i)[1]]

mappingsOf(forms) ==
    [i \in DOMAIN forms |-> mappingsAdded(<<>>, forms[Len(forms) + 1 - i],
                                          100 + Len(forms) + 1 - i)[1]]

\* texts typed into the search inputs
FilterSearchTerms ==
    { <<>>, <<"a">>, <<"P">>, <<"p", "i">>, <<"a", "p", "i">>, <<"A", "P", "I">>,
      <<"g", "O">>, <<"a", "p", "i", "x">> }

FilterInit ==
    /\ CtxInit
    /\ ThemeInit
    /\ analysisPage = analysisInitial
    /\ now = 100
    /\ changes = 0
    /\ \/ /\ route = "/repositories"
          /\ \E forms \in SeqsUpTo(FilterRepositoryForms, MaxFilterRecords) :
                repositoriesPage =
                   [repositoriesInitial EXCEPT !.repositories = repositoriesOf(forms)]
          /\ coveragePage = coverageInitial
       \/ /\ route = "/coverage"
          /\ \E forms \in SeqsUpTo(FilterMappingForms, MaxFilterRecords) :
                coveragePage = [coverageInitial EXCEPT !.mappings = mappingsOf(forms)]
          /\ repositoriesPage = repositoriesInitial

FilterNext ==
    \/ \E value \in FilterSearchTerms : Repositories_setSearchTerm(value)
    \/ \E value \in {"all", "active", "inactive", "archived"} :
          Repositories_setFilterStatus(value)
    \/ \E value \in FilterSearchTerms : Coverage_setSearchTerm(value)
    \/ \E value \in {"all", "high", "medium", "low"} : Coverage_setFilterType(value)

SpecFilter == FilterInit /\ [][FilterNext]_vars

-----------------------------------------------------------------------------
(* Properties of the filters.                                              *)

\* a and b are the same character, or the same letter in its two cases
SameLetter(a, b) ==
    a = b \/ \E upper \in DOMAIN LowerOf : {a, b} = {upper, LowerOf[upper]}

\* sub occurs in text, the case of the letters set aside
ContainsIgnoringCase(text, sub) ==
    \E k \in 0..(Len(text) - Len(sub)) :
       \A j \in 1..Len(sub) : SameLetter(text[k + j], sub[j])

\* the searched fields of a record
SearchedFields(record) ==
    IF "name" \in DOMAIN record
    THEN <<record.name, record.description, record.language>>
    ELSE <<record.filePath, record.testFilePath, record.testFunctionName>>

\* the field of a record the select is compared with
SelectedField(record) ==
    IF "name" \in DOMAIN record THEN record.status ELSE record.priority

\* the record contains the search text in one of its searched fields
FoundIn(record, searchTerm) ==
    \E f \in 1..3 : ContainsIgnoringCase(SearchedFields(record)[f], searchTerm)

\* the record passes the select
Selected(record, value) == value = "all" \/ SelectedField(record) = value

\* the records of list, in list order, that contain the search text and pass
\* the select
RECURSIVE Kept(_, _, _)
Kept(list, searchTerm, value) ==
    IF list = <<>>
    THEN <<>>
    ELSE (IF FoundIn(Head(list), searchTerm) /\ Selected(Head(list), value)
          THEN <<Head(list)>> ELSE <<>>)
           \o Kept(Tail(list), searchTerm, value)

C2_SelectSubset ==
    /\ repositoriesPage.filterStatus # "all" =>
          \A i \in DOMAIN filteredRepositories :
             filteredRepositories[i].status = repositoriesPage.filterStatus
    /\ coveragePage.filterType # "all" =>
          \A i \in DOMAIN filteredMappings :
             filteredMappings[i].priority = coveragePage.filterType
    /\ repositoriesPage.filterStatus = "all" =>
          filteredRepositories =
             SelectSeq(repositoriesPage.repositories,
                       LAMBDA repo : FoundIn(repo, repositoriesPage.searchTerm))
    /\ coveragePage.filterType = "all" =>
          filteredMappings =
             SelectSeq(coveragePage.mappings,
                       LAMBDA mapping : FoundIn(mapping, coveragePage.searchTerm))

\* a priority is selected and a text searched: one of two mappings is left
C2_Witness ==
    /\ route = "/coverage"
    /\ coveragePage.filterType = "high"
    /\ coveragePage.searchTerm = <<"P">>
    /\ Len(coveragePage.mappings) = 2
    /\ Len(filteredMappings) = 1
    /\ \A i \in DOMAIN coveragePage.mappings :
          FoundIn(coveragePage.mappings[i], coveragePage.searchTerm)

-----------------------------------------------------------------------------
(* Properties of the pages.                                                *)

\* C3: the visible page never holds more records than the page size (8
\* repositories, 10 mappings), and when currentPage equals totalPages it
\* holds the remainder, the filtered length minus (totalPages - 1) times the
\* page size.
C3_PageSize ==
    LET shownRepositories == Len(paginatedRepositories)
        shownMappings     == Len(paginatedMappings)
        totalRepositories == repositoriesTotalPages
        totalMappings     == coverageTotalPages
    IN  /\ shownRepositories <= 8
        /\ shownMappings <= 10
        /\ repositoriesPage.currentPage = totalRepositories =>
              shownRepositories =
                 Len(filteredRepositories) - (totalRepositories - 1) * 8
        /\ coveragePage.currentPage = totalMappings =>
              shownMappings = Len(filteredMappings) - (totalMappings - 1) * 10

\* the second and last page of nine repositories shows the ninth
C3_Witness ==
    /\ route = "/repositories"
    /\ Len(filteredRepositories) = 9
    /\ repositoriesTotalPages = 2
    /\ repositoriesPage.currentPage = 2
    /\ Len(paginatedRepositories) = 1

\* C4: a submission of the form adds exactly one record to the list when no
\* record is being edited, and leaves the number of records as it was when
\* one is, on both pages.
C4_SubmitCount ==
    [][ /\ (\E t \in Ticks : Repositories_handleSubmit(t)) =>
             Len(repositoriesPage'.repositories) =
                IF repositoriesPage.editingRepo = Null
                THEN Len(repositoriesPage.repositories) + 1
                ELSE Len(repositoriesPage.repositories)
        /\ (\E t \in Ticks : Coverage_handleSubmit(t)) =>
             Len(coveragePage'.mappings) =
                IF coveragePage.editingMapping = Null
                THEN Len(coveragePage.mappings) + 1
                ELSE Len(coveragePage.mappings) ]_vars

\* a repository has been added and a repository of the mock data edited
C4_Witness ==
    /\ route = "/repositories"
    /\ ~repositoriesPage.showForm
    /\ Len(repositoriesPage.repositories) = 7
    /\ repositoriesPage.repositories[1].id > 6
    /\ \E i \in DOMAIN repositoriesPage.repositories :
          /\ repositoriesPage.repositories[i].id <= 6
          /\ "stars" \notin DOMAIN repositoriesPage.repositories[i]

-----------------------------------------------------------------------------
(* Properties of the shared context.                                       *)

\* a request of call c has been issued and has not settled yet
Outstanding(c) == calls[c].pc \in {"fetch", "json"}

\* the requests that have not settled, oldest first
Pending(cs) == SelectSeq(cs, LAMBDA call : call.pc \in {"fetch", "json"})

\* C5: a request that fails in apiCall (the fetch rejects, the response is
\* not ok, or the body does not parse) leaves a non-null message string in
\* error and loading false when apiCall ends, and the operation that called
\* apiCall rejects in turn.
C5_FailedRequestSetsError ==
    /\ [](\A c \in InFlight :
            calls[c].pc = "rejected" =>
               /\ state.error # Null
               /\ state.error.string \in STRING
               /\ state.loading = FALSE)
    /\ [][(\E c \in InFlight : calls[c].pc = "rejected")
             => settled'.outcome = "rejected"]_vars

\* C5 witness: apiCall has just failed on a response that is not ok
C5_Witness ==
    \E c \in InFlight :
        /\ calls[c].pc = "rejected"
        /\ state.error = JSString("HTTP error! status: 500")


\* the operations C6 lists
ListedOperations ==
    { "analyzeImpact", "getAnalyses", "getRepositories", "getCoverageMappings",
      "createCoverageMapping", "getMetrics" }

\* call c completes in this step
Completes(c) ==
    /\ calls[c].pc \in {"resolved", "rejected"}
    /\ Len(calls') < Len(calls)

\* C6, as claimed: an operation that fails leaves the data fields exactly as
\* they were when it started and error non-null; an operation that succeeds
\* with no other request running during it leaves error null.
C6_AllOrNothing_AsClaimed ==
    [][\A c \in InFlight :
          (calls[c].op \in ListedOperations /\ Completes(c)) =>
             /\ calls[c].pc = "rejected" =>
                   /\ state'.error # Null
                   /\ Data(state') = calls[c].pre
             /\ (calls[c].pc = "resolved" /\ ~calls[c].overlapped) =>
                   state'.error = Null]_vars

\* C6, amended: an operation that fails has written none of the data fields
\* (they are exactly as they were when it started unless another operation
\* or setCurrentAnalysis wrote them in the meantime) and leaves error
\* non-null; an operation that succeeds with no other request running during
\* it leaves error null.
C6_AllOrNothing ==
    [][\A c \in InFlight :
          (calls[c].op \in ListedOperations /\ Completes(c)) =>
             /\ calls[c].pc = "rejected" =>
                   /\ state'.error # Null
                   /\ ~calls[c].disturbed => Data(state') = calls[c].pre
             /\ (calls[c].pc = "resolved" /\ ~calls[c].overlapped) =>
                   state'.error = Null]_vars

\* C6 witness: createCoverageMapping is about to reject because its refresh
\* failed after its POST succeeded, with repositories loaded before it
\* started and still in place
C6_Witness ==
    \E c \in InFlight :
        /\ calls[c].op = "createCoverageMapping"
        /\ calls[c].request = "refresh"
        /\ calls[c].pc = "rejected"
        /\ ~calls[c].disturbed
        /\ Len(state.repositories) > 0
        /\ Data(state) = calls[c].pre
        /\ state.error # Null

\* C7: while a request that is alone on the wire from its start is in
\* flight, loading is true and error is null.
C7_LoneRequestLoading ==
    \A c \in InFlight :
        (Outstanding(c) /\ ~calls[c].requestOverlapped) =>
            /\ state.loading = TRUE
            /\ state.error = Null

\* C7 witness: a lone request in flight that found the error of an earlier
\* failed request when it started
C7_Witness ==
    \E c \in InFlight :
        /\ Outstanding(c)
        /\ ~calls[c].requestOverlapped
        /\ calls[c].errorBefore
        /\ settled.outcome = "rejected"
        /\ state.loading = TRUE
        /\ state.error = Null

\* C8: loading is true exactly while some request has not completed.
C8_LoadingWhileOutstanding ==
    state.loading = (\E c \in InFlight : Outstanding(c))

\* C9: every invocation of apiCall has issued exactly one fetch, and the
\* step that follows a failure of apiCall (the operation's catch) issues no
\* request.
C9_NoRetry ==
    /\ [](\A c \in InFlight : calls[c].fetches = 1)
    /\ [][(\E c \in InFlight : calls[c].pc = "rejected")
             => /\ Pending(calls') = Pending(calls)
                /\ Len(calls') = Len(calls) - 1]_vars

\* C9 witness: an operation has failed and nothing is in flight after it
C9_Witness ==
    /\ settled.outcome = "rejected"
    /\ calls = <<>>
    /\ state.error # Null

\* C10: the banner is rendered exactly when error is non-null, and
\* clearError sets error to null and changes nothing else.
C10_DismissibleBanner ==
    /\ [](bannerRendered <=> state.error # Null)
    /\ [][clearError =>
             /\ state'.error = Null
             /\ state'.loading = state.loading
             /\ Data(state') = Data(state)]_vars

\* C10 witness: the only operation called so far failed, data loaded or not,
\* and its error has been dismissed
C10_Witness ==
    /\ opsStarted = 1
    /\ calls = <<>>
    /\ settled.outcome = "rejected"
    /\ state.error = Null
    /\ ~bannerRendered

-----------------------------------------------------------------------------
(* Properties of the requests in flight.                                   *)

\* what the user can do while requests are in flight
UserAction ==
    \/ clearError
    \/ \E analysis \in {Null, [id |-> 1]} : setCurrentAnalysis(analysis)
    \/ \E op \in Operations : StartOperation(op)

\* the requests that have not settled, oldest first: whose they are and
\* where they stand
Wire(cs) ==
    [i \in DOMAIN Pending(cs) |->
        [op |-> Pending(cs)[i].op, request |-> Pending(cs)[i].request,
         pc |-> Pending(cs)[i].pc]]

\* the operations that dispatch the result of their request
DispatchingOperations ==
    { "analyzeImpact", "getAnalyses", "getRepositories", "getCoverageMappings",
      "getMetrics" }

\* the result of a request of op is held by the shared state s
ResultHeld(s, op, data) ==
    CASE op = "analyzeImpact" ->
            s.analyses # <<>> /\ s.analyses[1] = data /\ s.currentAnalysis = data
      [] op = "getAnalyses" -> s.analyses = data
      [] op = "getRepositories" -> s.repositories = data
      [] op \in {"getCoverageMappings", "createCoverageMapping"} ->
            s.coverageMappings = data
      [] op = "getMetrics" -> \A k \in DOMAIN data : s.stats[k] = data[k]
      [] OTHER -> FALSE

\* the step that follows the success of the request of call c dispatches
\* the result of the request
ResultDispatched(c) ==
    LET action == resultAction(calls[c].op, calls[c].data) IN
    /\ action.type # "NONE"
    /\ action.payload = calls[c].data
    /\ state' = Dispatch(state, action)
    /\ ResultHeld(state', calls[c].op, calls[c].data)

\* no user action changes the requests that have not settled
NoAbort ==
    [][UserAction =>
         /\ Len(Wire(calls')) >= Len(Wire(calls))
         /\ SubSeq(Wire(calls'), 1, Len(Wire(calls))) = Wire(calls)]_vars

\* a request that fails has SET_ERROR dispatched with its message
FailureDispatched ==
    [][\A c \in InFlight :
          (Outstanding(c) /\ c \in DOMAIN calls' /\ calls'[c].pc = "rejected") =>
             /\ state'.error # Null
             /\ state'.error.string \in STRING]_vars

\* C11 as claimed: a request that has been issued is cancelled by no user
\* action (clearError, setCurrentAnalysis, another operation), and when it
\* settles its outcome is dispatched into the shared state: the result for
\* a success, SET_ERROR for a failure.
C11_NoAbort_AsClaimed ==
    /\ NoAbort
    /\ FailureDispatched
    /\ [][\A c \in InFlight : calls[c].pc = "resolved" => ResultDispatched(c)]_vars

\* C11: a request that has been issued is cancelled by no user action, a
\* failure has SET_ERROR dispatched, and a success has the result dispatched
\* by analyzeImpact, getAnalyses, getRepositories, getCoverageMappings, the
\* refresh of createCoverageMapping and getMetrics (getHealthStatus and the
\* POST of createCoverageMapping only return theirs).
C11_NoAbort ==
    /\ NoAbort
    /\ FailureDispatched
    /\ [][\A c \in InFlight :
            ( /\ calls[c].pc = "resolved"
              /\ \/ calls[c].op \in DispatchingOperations
                 \/ calls[c].op = "createCoverageMapping" /\ calls[c].request = "refresh" )
            => ResultDispatched(c)]_vars

\* C11 witness: the request of analyzeImpact is still in flight after the
\* user has set the current analysis
C11_Witness ==
    /\ opsStarted = 1
    /\ state.currentAnalysis = [id |-> 1]
    /\ \E c \in InFlight :
          /\ calls[c].op = "analyzeImpact"
          /\ calls[c].pc = "json"
          /\ calls[c].disturbed

-----------------------------------------------------------------------------
(* The ids of the records: the pages with the clock read as Date.now()     *)
(* reads it, in whole milliseconds.                                        *)

\* what Date.now() may read at a submission: the millisecond of the
\* submission before, or a later one
Readings == {now, now + 1}

IdsNext ==
    \/ \E path \in Routes : Navigate(path)
    \/ Repositories_loaded
    \/ Repositories_add
    \/ \E input \in NextInput(RepositoriesFormInputs, repositoriesPage.formData,
                               repositoriesFormDefaults) :
          Repositories_setFormData(input.field, input.value)
    \/ \E t \in Readings : Repositories_handleSubmit(t)
    \/ /\ changes < MaxChanges
       /\ \E i \in DOMAIN paginatedRepositories :
             Repositories_handleEdit(paginatedRepositories[i])
    \/ /\ changes < MaxChanges
       /\ \E i \in DOMAIN paginatedRepositories, confirmed \in BOOLEAN :
             Repositories_handleDelete(paginatedRepositories[i].id, confirmed)
    \/ /\ changes < MaxChanges
       /\ \E i \in DOMAIN paginatedRepositories :
             Repositories_handleSync(paginatedRepositories[i].id)
    \/ Coverage_loaded
    \/ Coverage_add
    \/ \E input \in NextInput(CoverageFormInputs, coveragePage.formData, coverageFormDefaults) :
          Coverage_setFormData(input.field, input.value)
    \/ \E t \in Readings : Coverage_handleSubmit(t)
    \/ /\ changes < MaxChanges
       /\ \E i \in DOMAIN paginatedMappings : Coverage_handleEdit(paginatedMappings[i])
    \/ /\ changes < MaxChanges
       /\ \E i \in DOMAIN paginatedMappings, confirmed \in BOOLEAN :
             Coverage_handleDelete(paginatedMappings[i].id, confirmed)

SpecIds == Init /\ [][IdsNext]_vars

\* no two records of the list carry the same id
DistinctIds(list) ==
    \A i, j \in DOMAIN list : i # j => list[i].id # list[j].id

\* C14: on both pages the records of the list have pairwise distinct ids,
\* and the record a submission adds carries what Date.now() read at that
\* submission.
C14_DistinctIds ==
    /\ DistinctIds(repositoriesPage.repositories)
    /\ DistinctIds(coveragePage.mappings)

-----------------------------------------------------------------------------
(* Typing into the search input: the filtered list for a search text and   *)
(* for the texts it extends.                                               *)

\* what the form of the Repositories page was filled with
NarrowRepositoryForms ==
    { Spread(repositoriesFormDefaults, texts) : texts \in
        { [name |-> <<"A", "p", "i">>, description |-> <<>>,
           language |-> <<"G", "o">>, status |-> "active"],
          [name |-> <<"w", "e", "b">>, description |-> <<"a", "p">>,
           language |-> <<>>, status |-> "inactive"],
          [name |-> <<"α", "σ", "α">>, description |-> <<>>,
           language |-> <<>>, status |-> "active"] } }

\* what the form of the Coverage page was filled with
NarrowMappingForms ==
    { Spread(coverageFormDefaults, texts) : texts \in
        { [filePath |-> <<"A", "p", "i">>, testFilePath |-> <<"t">>,
           testFunctionName |-> <<"G", "o">>, priority |-> "high"],
          [filePath |-> <<"w", "e", "b">>, testFilePath |-> <<"a", "p">>,
           testFunctionName |-> <<"t">>, priority |-> "medium"],
          [filePath |-> <<"α", "σ", "α">>, testFilePath |-> <<"t">>,
           testFunctionName |-> <<"t">>, priority |-> "high"] } }

\* texts typed into the search inputs, a character at a time
NarrowSearchTerms ==
    { <<>>, <<"a">>, <<"a", "p">>, <<"a", "P", "I">>,
      <<"Α">>, <<"Α", "Σ">>, <<"Α", "Σ", "Α">> }

NarrowInit ==
    /\ CtxInit
    /\ ThemeInit
    /\ analysisPage = analysisInitial
    /\ now = 100
    /\ changes = 0
    /\ \/ /\ route = "/repositories"
          /\ \E forms \in SeqsUpTo(NarrowRepositoryForms, MaxFilterRecords) :
                repositoriesPage =
                   [repositoriesInitial EXCEPT !.repositories = repositoriesOf(forms)]
          /\ coveragePage = coverageInitial
       \/ /\ route = "/coverage"
          /\ \E forms \in SeqsUpTo(NarrowMappingForms, MaxFilterRecords) :
                coveragePage = [coverageInitial EXCEPT !.mappings = mappingsOf(forms)]
          /\ repositoriesPage = repositoriesInitial

NarrowNext ==
    \/ \E value \in NarrowSearchTerms : Repositories_setSearchTerm(value)
    \/ \E value \in {"all", "active", "inactive", "archived"} :
          Repositories_setFilterStatus(value)
    \/ \E value \in NarrowSearchTerms : Coverage_setSearchTerm(value)
    \/ \E value \in {"all", "high", "medium", "low"} : Coverage_setFilterType(value)

SpecNarrow == NarrowInit /\ [][NarrowNext]_vars

\* the texts that are substrings of t
Substrings(t) ==
    {<<>>} \cup { SubSeq(t, a, b) : a \in 1..Len(t), b \in 1..Len(t) }

\* sub is list with some of its records left out
RECURSIVE SubListOf(_, _)
SubListOf(sub, list) ==
    IF sub = <<>> THEN TRUE
    ELSE IF list = <<>> THEN FALSE
    ELSE IF Head(sub) = Head(list) THEN SubListOf(Tail(sub), Tail(list))
    ELSE SubListOf(sub, Tail(list))

\* C15: on both pages, whatever the list and the select value, the filtered
\* list for the search text is a sub-list of the filtered list for every
\* substring of the search text: extending the search text adds no record.
C15_TypingNarrows ==
    /\ \A s \in Substrings(repositoriesPage.searchTerm) :
          SubListOf(filteredRepositories,
                    filterRepositories(repositoriesPage.repositories, s,
                                       repositoriesPage.filterStatus))
    /\ \A s \in Substrings(coveragePage.searchTerm) :
          SubListOf(filteredMappings,
                    filterMappings(coveragePage.mappings, s, coveragePage.filterType))

-----------------------------------------------------------------------------
(* Properties of the operations of the context.                            *)

\* C16: when analyzeImpact succeeds, analyses becomes the result followed by
\* the analyses held before, in their order and one longer, and
\* currentAnalysis is the result, whatever it was set to while the request
\* was in flight.
C16_AnalysisAdded ==
    [][\A c \in InFlight :
          (calls[c].op = "analyzeImpact" /\ OperationResolves(c)) =>
             /\ state'.analyses = <<calls[c].data>> \o state.analyses
             /\ Len(state'.analyses) = Len(state.analyses) + 1
             /\ state'.currentAnalysis = calls[c].data
             /\ settled' = operationReturn("analyzeImpact")]_vars

\* analyzeImpact has succeeded with analyses held before it: its result
\* stands first, and it is the current analysis
C16_Witness ==
    /\ calls = <<>>
    /\ settled = operationReturn("analyzeImpact")
    /\ state.analyses = <<[id |-> 2], [id |-> 1]>>
    /\ state.currentAnalysis = [id |-> 2]

\* the call is one of createCoverageMapping, at the request given
Creating(call, request) ==
    call.op = "createCoverageMapping" /\ call.request = request

\* the refresh requests of createCoverageMapping among the calls
Refreshing(cs) == SelectSeq(cs, LAMBDA call : Creating(call, "refresh"))

\* C17: createCoverageMapping issues its refresh only when its POST has
\* succeeded, and settles as rejected without one when the POST fails; it
\* resolves only when the refresh has succeeded; when the refresh fails it
\* rejects with error set, the refresh having written nothing to
\* coverageMappings (they are what they were when createCoverageMapping was
\* called, if nothing else wrote the data in the meantime).
C17_RefreshAfterPost ==
    [][/\ Len(Refreshing(calls')) > Len(Refreshing(calls)) =>
             \E c \in InFlight :
                /\ Creating(calls[c], "first") /\ calls[c].pc = "resolved"
                /\ Creating(calls'[c], "refresh") /\ calls'[c].pc = "fetch"
       /\ \A c \in InFlight :
             /\ (Creating(calls[c], "first") /\ calls[c].pc = "rejected") =>
                   /\ Len(Refreshing(calls')) = Len(Refreshing(calls))
                   /\ Len(calls') < Len(calls)
                   /\ settled' = operationCatch("createCoverageMapping")
             /\ (Creating(calls[c], "first") /\ calls[c].pc = "resolved") =>
                   /\ Len(calls') = Len(calls)
                   /\ settled' = settled
             /\ (calls[c].op = "createCoverageMapping" /\ Completes(c)
                   /\ settled' = operationReturn("createCoverageMapping")) =>
                   /\ Creating(calls[c], "refresh")
                   /\ calls[c].pc = "resolved"
             /\ (Creating(calls[c], "refresh") /\ Outstanding(c)
                   /\ c \in DOMAIN calls' /\ calls'[c].pc = "rejected") =>
                   /\ state'.error # Null
                   /\ state'.coverageMappings = state.coverageMappings
             /\ (Creating(calls[c], "refresh") /\ calls[c].pc = "rejected") =>
                   /\ Completes(c)
                   /\ settled' = operationCatch("createCoverageMapping")
                   /\ state'.error # Null
                   /\ state'.coverageMappings = state.coverageMappings
                   /\ ~calls[c].disturbed =>
                         state'.coverageMappings = calls[c].pre.coverageMappings]_vars

\* C17 witness: the refresh of createCoverageMapping has failed after its
\* POST succeeded, with the coverage mappings loaded before it was called
\* still in place
C17_Witness ==
    \E c \in InFlight :
        /\ Creating(calls[c], "refresh")
        /\ calls[c].pc = "rejected"
        /\ state.error # Null
        /\ state.coverageMappings = <<[id |-> 1]>>
        /\ calls[c].pre.coverageMappings = <<[id |-> 1]>>

-----------------------------------------------------------------------------
(* Properties of the pagination.                                           *)

\* Math.max(a, b)
Max(a, b) == IF a > b THEN a ELSE b

\* Math.min(a, b)
Min(a, b) == IF a < b THEN a ELSE b

\* C18: on both pages currentPage stays within 1..max(1, totalPages), and
\* the visible page holds a record whenever the filtered list does.
C18_PageInRange ==
    /\ repositoriesPage.currentPage \in 1..Max(1, repositoriesTotalPages)
    /\ coveragePage.currentPage \in 1..Max(1, coverageTotalPages)
    /\ filteredRepositories # <<>> => paginatedRepositories # <<>>
    /\ filteredMappings # <<>> => paginatedMappings # <<>>

\* C19: Previous sets currentPage to max(currentPage - 1, 1), Next to
\* min(currentPage + 1, totalPages) and a page-number button to a page of
\* 1..totalPages (the button clicked is the one of the page arrived at), so
\* that a page within range stays within range; the controls are operated
\* only when totalPages > 1.
C19_ControlsInRange ==
    [][/\ (/\ repositoriesPage'.currentPage # repositoriesPage.currentPage /\ route' = route
           /\ Repositories_previous) =>
             /\ repositoriesTotalPages > 1
             /\ repositoriesPage'.currentPage = Max(repositoriesPage.currentPage - 1, 1)
             /\ repositoriesPage.currentPage \in 1..repositoriesTotalPages =>
                   repositoriesPage'.currentPage \in 1..repositoriesTotalPages
       /\ (/\ repositoriesPage'.currentPage # repositoriesPage.currentPage /\ route' = route
           /\ Repositories_next) =>
             /\ repositoriesTotalPages > 1
             /\ repositoriesPage'.currentPage =
                   Min(repositoriesPage.currentPage + 1, repositoriesTotalPages)
             /\ repositoriesPage'.currentPage \in 1..repositoriesTotalPages
       /\ (/\ repositoriesPage'.currentPage # repositoriesPage.currentPage /\ route' = route
           /\ \E page \in {repositoriesPage'.currentPage} : Repositories_setCurrentPage(page)) =>
             /\ repositoriesTotalPages > 1
             /\ repositoriesPage'.currentPage \in 1..repositoriesTotalPages
       /\ (/\ coveragePage'.currentPage # coveragePage.currentPage /\ route' = route
           /\ Coverage_previous) =>
             /\ coverageTotalPages > 1
             /\ coveragePage'.currentPage = Max(coveragePage.currentPage - 1, 1)
             /\ coveragePage.currentPage \in 1..coverageTotalPages =>
                   coveragePage'.currentPage \in 1..coverageTotalPages
       /\ (/\ coveragePage'.currentPage # coveragePage.currentPage /\ route' = route
           /\ Coverage_next) =>
             /\ coverageTotalPages > 1
             /\ coveragePage'.currentPage =
                   Min(coveragePage.currentPage + 1, coverageTotalPages)
             /\ coveragePage'.currentPage \in 1..coverageTotalPages
       /\ (/\ coveragePage'.currentPage # coveragePage.currentPage /\ route' = route
           /\ \E page \in {coveragePage'.currentPage} : Coverage_setCurrentPage(page)) =>
             /\ coverageTotalPages > 1
             /\ coveragePage'.currentPage \in 1..coverageTotalPages]_vars

\* the second and last page of eleven mappings has been turned to
C19_Witness ==
    /\ route = "/coverage"
    /\ Len(coveragePage.mappings) = 11
    /\ coverageTotalPages = 2
    /\ coveragePage.currentPage = 2

-----------------------------------------------------------------------------
(* Properties of the edit of a repository.                                 *)

\* the fields of a repository the form does not hold
RepositoryCounters == {"stars", "forks", "issues", "pullRequests", "coverage", "lastCommit"}

\* C20: when the edit of a repository is submitted, the record edited still
\* has its stars, forks, issues, pullRequests, coverage and lastCommit, with
\* the values they had.
C20_EditKeepsCounters ==
    [][(/\ repositoriesPage.editingRepo # Null
        /\ \E t \in Ticks : Repositories_handleSubmit(t)) =>
          \A i \in DOMAIN repositoriesPage.repositories :
             repositoriesPage.repositories[i].id = repositoriesPage.editingRepo.id =>
                \A field \in RepositoryCounters :
                   /\ field \in DOMAIN repositoriesPage'.repositories[i]
                   /\ repositoriesPage'.repositories[i][field] =
                         repositoriesPage.repositories[i][field]]_vars

-----------------------------------------------------------------------------
(* Properties of the edit of a coverage mapping.                           *)

\* C21: when the edit of a coverage mapping is submitted, the mapping edited
\* has the status it had: an inactive mapping is still inactive.
C21_EditKeepsStatus ==
    [][(/\ coveragePage.editingMapping # Null
        /\ \E t \in Ticks : Coverage_handleSubmit(t)) =>
          \A i \in DOMAIN coveragePage.mappings :
             coveragePage.mappings[i].id = coveragePage.editingMapping.id =>
                coveragePage'.mappings[i].status = coveragePage.mappings[i].status]_vars

-----------------------------------------------------------------------------
(* Properties of the changes of the lists.                                 *)

\* after is before with at most the one record of the given id changed: a
\* record of that id keeps its id and its place, and every other record is
\* as it was, where it was
OnlyTargetChanged(before, after, id) ==
    /\ Len(after) = Len(before)
    /\ \E k \in DOMAIN before :
          /\ before[k].id = id
          /\ after[k].id = id
          /\ \A j \in DOMAIN before : j # k => after[j] = before[j]

\* after is before with one record put at its head
AddedAtHead(before, after) ==
    /\ Len(after) = Len(before) + 1
    /\ Tail(after) = before

\* C22: a submitted edit and a sync change only the record they are for,
\* which keeps its id and its place, every other record being as it was and
\* where it was; a submission that adds puts the new record at the head of
\* the list, the records held before following in their order.
C22_OnlyTarget ==
    [][/\ (\E t \in Readings : Repositories_handleSubmit(t)) =>
             IF repositoriesPage.editingRepo # Null
             THEN OnlyTargetChanged(repositoriesPage.repositories,
                                    repositoriesPage'.repositories,
                                    repositoriesPage.editingRepo.id)
             ELSE AddedAtHead(repositoriesPage.repositories,
                              repositoriesPage'.repositories)
       /\ \A i \in DOMAIN paginatedRepositories :
             Repositories_handleSync(paginatedRepositories[i].id) =>
                OnlyTargetChanged(repositoriesPage.repositories,
                                  repositoriesPage'.repositories,
                                  paginatedRepositories[i].id)
       /\ (\E t \in Readings : Coverage_handleSubmit(t)) =>
             IF coveragePage.editingMapping # Null
             THEN OnlyTargetChanged(coveragePage.mappings, coveragePage'.mappings,
                                    coveragePage.editingMapping.id)
             ELSE AddedAtHead(coveragePage.mappings, coveragePage'.mappings)]_vars

\* after is before with one record of the given id left out
OneRemoved(before, after, id) ==
    /\ Len(after) = Len(before) - 1
    /\ \E k \in DOMAIN before :
          /\ before[k].id = id
          /\ after = SubSeq(before, 1, k - 1) \o SubSeq(before, k + 1, Len(before))

\* C23: a deletion that is confirmed takes exactly one record from the list,
\* the one of the given id, the others staying as they were and in their
\* order; a deletion that is declined leaves the list as it was.
C23_DeleteOne ==
    [][/\ \A i \in DOMAIN paginatedRepositories :
             /\ Repositories_handleDelete(paginatedRepositories[i].id, TRUE) =>
                   OneRemoved(repositoriesPage.repositories,
                              repositoriesPage'.repositories,
                              paginatedRepositories[i].id)
             /\ Repositories_handleDelete(paginatedRepositories[i].id, FALSE) =>
                   repositoriesPage'.repositories = repositoriesPage.repositories
       /\ \A i \in DOMAIN paginatedMappings :
             /\ Coverage_handleDelete(paginatedMappings[i].id, TRUE) =>
                   OneRemoved(coveragePage.mappings, coveragePage'.mappings,
                              paginatedMappings[i].id)
             /\ Coverage_handleDelete(paginatedMappings[i].id, FALSE) =>
                   coveragePage'.mappings = coveragePage.mappings]_vars

-----------------------------------------------------------------------------
(* Properties of the forms of the pages.                                   *)

\* the form of the Repositories page is closed, with nothing in it
RepositoriesFormClosed(page) ==
    /\ ~page.showForm
    /\ page.editingRepo = Null
    /\ page.formData = repositoriesFormDefaults

\* the form of the Coverage page is closed, with nothing in it
CoverageFormClosed(page) ==
    /\ ~page.showForm
    /\ page.editingMapping = Null
    /\ page.formData = coverageFormDefaults

\* C24: on both pages a record is being edited only while the form is open;
\* Submit and Cancel close the form, let go of the record being edited and
\* reset the form data, Cancel leaving the list as it was; the Add button
\* opens an empty form with no record being edited, typing does not change
\* that, and a submission with no record being edited adds a record.
C24_FormLifecycle ==
    /\ [](/\ repositoriesPage.editingRepo # Null => repositoriesPage.showForm
          /\ coveragePage.editingMapping # Null => coveragePage.showForm)
    /\ [][/\ (\E t \in Ticks : Repositories_handleSubmit(t)) =>
                /\ RepositoriesFormClosed(repositoriesPage')
                /\ repositoriesPage.editingRepo = Null =>
                      AddedAtHead(repositoriesPage.repositories,
                                  repositoriesPage'.repositories)
          /\ Repositories_cancel =>
                /\ RepositoriesFormClosed(repositoriesPage')
                /\ repositoriesPage'.repositories = repositoriesPage.repositories
          /\ Repositories_add =>
                /\ repositoriesPage'.showForm
                /\ repositoriesPage'.editingRepo = Null
                /\ repositoriesPage'.formData = repositoriesFormDefaults
          /\ (\E input \in DOMAIN RepositoriesFormInputs :
                 Repositories_setFormData(RepositoriesFormInputs[input].field,
                                          RepositoriesFormInputs[input].value)) =>
                repositoriesPage'.editingRepo = repositoriesPage.editingRepo
          /\ (\E t \in Ticks : Coverage_handleSubmit(t)) =>
                /\ CoverageFormClosed(coveragePage')
                /\ coveragePage.editingMapping = Null =>
                      AddedAtHead(coveragePage.mappings, coveragePage'.mappings)
          /\ Coverage_cancel =>
                /\ CoverageFormClosed(coveragePage')
                /\ coveragePage'.mappings = coveragePage.mappings
          /\ Coverage_add =>
                /\ coveragePage'.showForm
                /\ coveragePage'.editingMapping = Null
                /\ coveragePage'.formData = coverageFormDefaults
          /\ (\E input \in DOMAIN CoverageFormInputs :
                 Coverage_setFormData(CoverageFormInputs[input].field,
                                      CoverageFormInputs[input].value)) =>
                coveragePage'.editingMapping = coveragePage.editingMapping]_vars

\* a repository has been added after the edit of another was opened and
\* given up: the six repositories of the mock data follow it untouched
C24_Witness ==
    /\ route = "/repositories"
    /\ RepositoriesFormClosed(repositoriesPage)
    /\ changes = 1
    /\ Len(repositoriesPage.repositories) = 7
    /\ repositoriesPage.repositories[1].id > 6
    /\ Tail(repositoriesPage.repositories) = mockRepositories

-----------------------------------------------------------------------------
(* Properties of the Analysis page.                                        *)

\* C25: the changedFiles of the Analysis form are never empty: the form
\* starts with one entry, and an entry is removed only while there is more
\* than one.
C25_NeverEmpty ==
    /\ [](Len(ChangedFiles) >= 1)
    /\ [][(\E index \in 0..(MaxChangedFiles + 1) : Analysis_removeChangedFile(index)) =>
             /\ Len(ChangedFiles) > 1
             /\ Len(ChangedFiles') = Len(ChangedFiles) - 1]_vars

\* the form holds a single entry, filled in: no remove button is rendered
C25_Witness ==
    /\ route = "/analysis"
    /\ ChangedFiles = <<[path |-> "src/api.js", type |-> "test"]>>
    /\ analysisPage.formData.repository = "company/api"

\* C26: a submission of the Analysis form sets isAnalyzing and clears the
\* error of the page, the result shown before staying in place; the analysis
\* always completes, and when it does isAnalyzing is false and analysisResult
\* is set (while the page stays mounted); the form is submitted only while
\* isAnalyzing is false, so at most one analysis is in progress, and the
\* result shown changes only when an analysis completes.
C26_AnalysisCompletes ==
    /\ [](/\ analysisPage.timers <= 1
          /\ analysisPage.isAnalyzing <=> analysisPage.timers = 1)
    /\ [][/\ Analysis_handleSubmit =>
                /\ ~analysisPage.isAnalyzing
                /\ analysisPage'.isAnalyzing
                /\ analysisPage'.error = Null
                /\ analysisPage'.analysisResult = analysisPage.analysisResult
          /\ Analysis_analysed =>
                /\ ~analysisPage'.isAnalyzing
                /\ analysisPage'.analysisResult # Null
          /\ (route' = route /\ ~Analysis_analysed) =>
                analysisPage'.analysisResult = analysisPage.analysisResult]_vars
    /\ analysisPage.isAnalyzing ~>
          /\ ~analysisPage.isAnalyzing
          /\ analysisPage.analysisResult # Null \/ route # "/analysis"

\* a second analysis is in progress, the result of the first still shown
C26_Witness ==
    /\ route = "/analysis"
    /\ analysisPage.isAnalyzing
    /\ analysisPage.timers = 1
    /\ analysisPage.analysisResult = mockResult

-----------------------------------------------------------------------------
(* The application: the providers with the pages mounted and unmounted     *)
(* under them, and the operations of the context called meanwhile.         *)

AppNext ==
    \/ /\ opsStarted < MaxAppOps
       /\ \E op \in Operations : StartOperation(op)
    \/ \E c \in InFlight, error \in FetchErrors : FetchRejects(c, error)
    \/ \E c \in InFlight, response \in Responses : FetchResolves(c, response)
    \/ \E c \in InFlight, error \in JsonErrors : JsonRejects(c, error)
    \/ \E c \in InFlight : \E data \in Bodies(calls[c].op, calls[c].request) :
          JsonResolves(c, data)
    \/ \E c \in InFlight : OperationResolves(c)
    \/ \E c \in InFlight : RefreshCoverageMappings(c)
    \/ \E c \in InFlight : OperationRejects(c)
    \/ \E analysis \in {Null, [id |-> 1]} : setCurrentAnalysis(analysis)
    \/ clearError
    \/ /\ ~MicrotaskPending
       /\ \E path \in Routes : Navigate(path)
    \/ /\ ~MicrotaskPending
       /\ Repositories_loaded
    \/ /\ ~MicrotaskPending
       /\ Coverage_loaded

SpecApp == Init /\ [][AppNext]_vars

\* C27: nothing is loaded on mount: while no operation of the context has
\* been called the shared state is the initial state (empty analyses,
\* repositories and coverageMappings, currentAnalysis and error null,
\* loading false, all stats 0), whatever pages were mounted; and the shared
\* state changes only in a step of an operation of the context.
C27_NoLoadOnMount ==
    /\ []((opsStarted = 0 /\ state.currentAnalysis = Null) => state = initialState)
    /\ [](opsStarted = 0 =>
             [state EXCEPT !.currentAnalysis = Null] = initialState)
    /\ [][state' # state => CtxNext]_vars

\* the Repositories page has been mounted and has loaded its mock data; no
\* operation has been called and the shared state is the initial state
C27_Witness ==
    /\ route = "/repositories"
    /\ ~repositoriesPage.loading
    /\ Len(repositoriesPage.repositories) = 6
    /\ opsStarted = 0
    /\ state = initialState
    /\ state.repositories = <<>>

-----------------------------------------------------------------------------
(* The reducer on its own: any state, any action.                          *)

\* actions dispatched to the reducer, one of a type it does not know among
\* them
ReducerActions ==
    << [type |-> "SET_LOADING", payload |-> TRUE],
       [type |-> "SET_LOADING", payload |-> FALSE],
       [type |-> "SET_ERROR", payload |-> JSString("Failed to fetch")],
       [type |-> "CLEAR_ERROR"],
       [type |-> "SET_ANALYSES", payload |-> <<[id |-> 1]>>],
       [type |-> "SET_ANALYSES", payload |-> <<>>],
       [type |-> "ADD_ANALYSIS", payload |-> [id |-> 2]],
       [type |-> "SET_CURRENT_ANALYSIS", payload |-> [id |-> 1]],
       [type |-> "SET_CURRENT_ANALYSIS", payload |-> Null],
       [type |-> "SET_REPOSITORIES", payload |-> <<[id |-> 1]>>],
       [type |-> "SET_COVERAGE_MAPPINGS", payload |-> <<[id |-> 1]>>],
       [type |-> "UPDATE_STATS", payload |-> [totalAnalyses |-> 5]],
       [type |-> "UPDATE_STATS", payload |-> [totalTimeSaved |-> 7, totalTestsSelected |-> 3]],
       [type |-> "RESET", payload |-> Null] >>

\* states the reducer is given
ReducerStates ==
    { [initialState EXCEPT !.loading = loading, !.error = error,
                           !.currentAnalysis = currentAnalysis,
                           !.repositories = repositories] :
        loading \in BOOLEAN, error \in {Null, JSString("HTTP error! status: 500")},
        currentAnalysis \in {Null, [id |-> 1]},
        repositories \in {<<>>, <<[id |-> 2]>>} }

ReducerInit ==
    /\ state \in ReducerStates
    /\ calls = <<>>
    /\ settled = [outcome |-> "none"]
    /\ opsStarted = 0
    /\ PagesInit
    /\ ThemeInit

\* dispatch(action); the analyses held are bounded
Reduce(action) ==
    /\ action.type = "ADD_ANALYSIS" => Len(state.analyses) < MaxOps
    /\ state' = Dispatch(state, action)
    /\ UNCHANGED <<calls, settled, opsStarted, pageVars, uiVars>>

ReducerNext == \E i \in DOMAIN ReducerActions : Reduce(ReducerActions[i])

SpecReducer == ReducerInit /\ [][ReducerNext]_vars

\* the fields of the state an action of the type may write
Written(type) ==
    CASE type = "SET_LOADING"           -> {"loading"}
      [] type = "CLEAR_ERROR"           -> {"error"}
      [] type = "SET_ERROR"             -> {"error", "loading"}
      [] type = "SET_ANALYSES"          -> {"analyses"}
      [] type = "ADD_ANALYSIS"          -> {"analyses", "currentAnalysis"}
      [] type = "SET_CURRENT_ANALYSIS"  -> {"currentAnalysis"}
      [] type = "SET_REPOSITORIES"      -> {"repositories"}
      [] type = "SET_COVERAGE_MAPPINGS" -> {"coverageMappings"}
      [] type = "UPDATE_STATS"          -> {"stats"}
      [] OTHER                          -> {}

\* t is s with nothing written but what the action may write
Framed(s, t, action) ==
    /\ DOMAIN t = DOMAIN s
    /\ \A field \in DOMAIN s : field \notin Written(action.type) => t[field] = s[field]
    /\ action.type = "SET_ERROR" => t.loading = FALSE
    /\ action.type = "UPDATE_STATS" =>
          \A key \in DOMAIN s.stats :
             key \notin DOMAIN action.payload => t.stats[key] = s.stats[key]

\* C28: whatever the state, each action of the reducer writes only its own
\* fields (SET_ERROR error and loading, which it sets to false; ADD_ANALYSIS
\* analyses and currentAnalysis; UPDATE_STATS the keys of stats its payload
\* holds; each other action the one field of its name), and an action of any
\* other type returns the state as it is.
C28_ReducerFrame ==
    \A i \in DOMAIN ReducerActions :
       Framed(state, analysisReducer(state, ReducerActions[i]), ReducerActions[i])

\* a state with every field written: errors, analyses, repositories, coverage
\* mappings and stats are held while loading
C28_Witness ==
    /\ state.loading
    /\ state.error # Null
    /\ state.analyses = <<[id |-> 2], [id |-> 1]>>
    /\ state.currentAnalysis = Null
    /\ state.repositories # <<>>
    /\ state.coverageMappings # <<>>
    /\ state.stats.totalAnalyses = 5
    /\ state.stats.totalTimeSaved = 7

====
